---- MODULE Spec2Model ----
(***************************************************************************)
(* Hotel booking chatbot (app.py, nlp_utils.py): the dialogue state        *)
(* machine of process_conversation_step, the session registry, the field   *)
(* extractors and the bookings table written by save_booking_to_db.        *)
(*                                                                         *)
(* Python strings are modelled as sequences of one-character strings, so   *)
(* that strip, lower, split, title and the similarity ratio are computed   *)
(* on characters.  A Python Optional is a set: {} for None, {v} for v.     *)
(***************************************************************************)
EXTENDS Integers, Sequences, FiniteSets, TLC

VARIABLES
  active_sessions,  \* app.py:29, session_id -> [step, data, session_id]
  bookings,         \* the rows of table bookings, in id order
  response,         \* the reply of the last request chat_endpoint answered
  inserted,         \* history: rows committed per session since it last entered step name
  inflight,         \* requests in progress on concurrent threads (SpecConc only)
  call,             \* the extractor called last and its arguments (SpecPure only)
  result            \* what that call returned

vars == <<active_sessions, bookings, response, inserted, inflight, call, result>>

----------------------------------------------------------------------------
(* Characters and strings *)

LowerChars == <<"a","b","c","d","e","f","g","h","i","j","k","l","m","n","o","p","q","r","s","t","u","v","w","x","y","z">>
UpperChars == <<"A","B","C","D","E","F","G","H","I","J","K","L","M","N","O","P","Q","R","S","T","U","V","W","X","Y","Z">>
DigitChars == <<"0","1","2","3","4","5","6","7","8","9">>
PunctChars == {".",",","!","?",";",":","\"","(",")","[","]","{","}"}
SpaceChars == {" ", "\t", "\n"}

None == {}
Some(v) == {v}
The(o) == CHOOSE v \in o : TRUE

Range(s) == {s[i] : i \in 1..Len(s)}
IndexIn(s, c) == CHOOSE i \in 1..Len(s) : s[i] = c
IsLower(c) == c \in Range(LowerChars)
IsUpper(c) == c \in Range(UpperChars)
IsLetter(c) == IsLower(c) \/ IsUpper(c)
IsDigit(c) == c \in Range(DigitChars)
LowerChar(c) == IF IsUpper(c) THEN LowerChars[IndexIn(UpperChars, c)] ELSE c
UpperChar(c) == IF IsLower(c) THEN UpperChars[IndexIn(LowerChars, c)] ELSE c
Max(a, b) == IF a >= b THEN a ELSE b

\* str.lower()
lower(s) == [i \in 1..Len(s) |-> LowerChar(s[i])]

\* str.strip(chars): drop the leading and trailing characters that are in cs
strip_chars(s, cs) ==
  LET keep == {i \in 1..Len(s) : s[i] \notin cs}
  IN IF keep = {} THEN << >>
     ELSE LET lo == CHOOSE i \in keep : \A j \in keep : i <= j
              hi == CHOOSE i \in keep : \A j \in keep : i >= j
          IN SubSeq(s, lo, hi)

\* str.strip()
strip(s) == strip_chars(s, SpaceChars)

\* str.split(): the maximal runs of non-whitespace characters, in order
RECURSIVE SplitFrom(_, _, _, _)
SplitFrom(s, i, cur, acc) ==
  IF i > Len(s) THEN (IF cur = << >> THEN acc ELSE Append(acc, cur))
  ELSE IF s[i] \in SpaceChars
       THEN SplitFrom(s, i + 1, << >>, IF cur = << >> THEN acc ELSE Append(acc, cur))
       ELSE SplitFrom(s, i + 1, Append(cur, s[i]), acc)
split(s) == SplitFrom(s, 1, << >>, << >>)

\* needle in hay (substring test)
contains(hay, needle) ==
  \E i \in 1..(Len(hay) - Len(needle) + 1) : SubSeq(hay, i, i + Len(needle) - 1) = needle

\* x in list
InList(x, list) == \E i \in 1..Len(list) : list[i] = x

\* str.isalpha() and str.istitle() on ASCII text
isalpha(s) == Len(s) > 0 /\ \A i \in 1..Len(s) : IsLetter(s[i])
istitle(s) ==
  /\ \E i \in 1..Len(s) : IsLetter(s[i])
  /\ \A i \in 1..Len(s) :
       LET after_cased == i > 1 /\ IsLetter(s[i - 1])
       IN /\ IsUpper(s[i]) => ~after_cased
          /\ IsLower(s[i]) => after_cased

\* str.title(): a letter is upper-cased after a non-letter, lower-cased after a letter
title(s) ==
  [i \in 1..Len(s) |->
     IF i > 1 /\ IsLetter(s[i - 1]) THEN LowerChar(s[i]) ELSE UpperChar(s[i])]

\* re.findall(r'\d+', s): the maximal runs of digits, in order
RECURSIVE DigitRunsFrom(_, _, _, _)
DigitRunsFrom(s, i, cur, acc) ==
  IF i > Len(s) THEN (IF cur = << >> THEN acc ELSE Append(acc, cur))
  ELSE IF IsDigit(s[i])
       THEN DigitRunsFrom(s, i + 1, Append(cur, s[i]), acc)
       ELSE DigitRunsFrom(s, i + 1, << >>, IF cur = << >> THEN acc ELSE Append(acc, cur))
findall_digits(s) == DigitRunsFrom(s, 1, << >>, << >>)

\* int(s) for a run of digits
RECURSIVE int(_)
int(s) ==
  IF s = << >> THEN 0
  ELSE 10 * int(SubSeq(s, 1, Len(s) - 1)) + (IndexIn(DigitChars, s[Len(s)]) - 1)

\* rapidfuzz.fuzz.ratio(a, b) = 100 * 2 * LCS(a, b) / (len(a) + len(b)), and 100 for
\* two empty strings.  The score is kept as the fraction n / d.
RECURSIVE LcsRow(_, _, _, _)
LcsRow(prev, a, c, acc) ==
  IF Len(acc) = Len(a) + 1 THEN acc
  ELSE LET i == Len(acc)
       IN LcsRow(prev, a, c,
                 Append(acc, IF a[i] = c THEN prev[i] + 1 ELSE Max(prev[i + 1], acc[i])))
RECURSIVE LcsFrom(_, _, _, _)
LcsFrom(a, b, j, prev) ==
  IF j > Len(b) THEN prev[Len(a) + 1]
  ELSE LcsFrom(a, b, j + 1, LcsRow(prev, a, b[j], <<0>>))
Lcs(a, b) == LcsFrom(a, b, 1, [i \in 1..(Len(a) + 1) |-> 0])
fuzz_ratio(a, b) ==
  IF Len(a) + Len(b) = 0 THEN [n |-> 100, d |-> 1]
  ELSE [n |-> 200 * Lcs(a, b), d |-> Len(a) + Len(b)]
\* score >= k, score > k for an integer k; score > other score
ScoreGE(s, k) == s.n >= k * s.d
ScoreGT(s, k) == s.n > k * s.d
ScoreGTScore(s, t) == s.n * t.d > t.n * s.d

----------------------------------------------------------------------------
(* The word lists of the source, in the order the source gives them *)

\* nlp_utils.py:143-147
yes_words ==
  << <<"y","e","s">>, <<"y">>, <<"y","e","a","h">>, <<"y","e","p">>, <<"y","u","p">>,
     <<"s","u","r","e">>, <<"o","k">>, <<"o","k","a","y">>,
     <<"a","l","r","i","g","h","t">>, <<"d","e","f","i","n","i","t","e","l","y">>,
     <<"a","b","s","o","l","u","t","e","l","y">>,
     <<"c","e","r","t","a","i","n","l","y">>, <<"o","f"," ","c","o","u","r","s","e">>,
     <<"p","l","e","a","s","e">>, <<"c","o","r","r","e","c","t">>,
     <<"r","i","g","h","t">>, <<"t","r","u","e">>, <<"c","o","n","f","i","r","m">>,
     <<"a","g","r","e","e","d">> >>

\* nlp_utils.py:149-152
no_words ==
  << <<"n","o">>, <<"n">>, <<"n","o","p","e">>, <<"n","a","h">>, <<"n","o","t">>,
     <<"n","e","v","e","r">>, <<"n","o","n","e">>, <<"n","e","g","a","t","i","v","e">>,
     <<"f","a","l","s","e">>, <<"i","n","c","o","r","r","e","c","t">>,
     <<"w","r","o","n","g">>, <<"d","i","s","a","g","r","e","e">>,
     <<"r","e","f","u","s","e">>, <<"d","e","c","l","i","n","e">> >>

\* nlp_utils.py:203
single_indicators ==
  << <<"m","e">>, <<"m","y","s","e","l","f">>, <<"j","u","s","t"," ","m","e">>,
     <<"o","n","e"," ","p","e","r","s","o","n">>, <<"s","o","l","o">>,
     <<"a","l","o","n","e">> >>

\* nlp_utils.py:218-222, the keys in insertion order
word_to_num_keys ==
  << <<"o","n","e">>, <<"t","w","o">>, <<"t","h","r","e","e">>, <<"f","o","u","r">>,
     <<"f","i","v","e">>, <<"s","i","x">>, <<"s","e","v","e","n">>,
     <<"e","i","g","h","t">>, <<"n","i","n","e">>, <<"t","e","n">>, <<"a">>,
     <<"a","n">>, <<"s","i","n","g","l","e">>, <<"c","o","u","p","l","e">>,
     <<"p","a","i","r">> >>

\* nlp_utils.py:51
skip_words ==
  << <<"I">>, <<"M","y">>, <<"M","e">>, <<"H","i">>, <<"H","e","l","l","o">>,
     <<"H","e","y">>, <<"S","i","r">>, <<"M","a","d","a","m">>, <<"M","r">>,
     <<"M","r","s">>, <<"M","s">> >>

\* app.py:256
skip_tokens ==
  << <<"s","k","i","p">>, <<"l","a","t","e","r">>, <<"n","o","n","e">> >>

\* app.py:260
valid_methods ==
  << <<"c","r","e","d","i","t"," ","c","a","r","d">>,
     <<"d","e","b","i","t"," ","c","a","r","d">>, <<"c","a","s","h">>,
     <<"p","a","y","p","a","l">> >>

\* app.py:301
affirmative ==
  << <<"c","o","n","f","i","r","m">>, <<"y","e","s">>, <<"b","o","o","k">>,
     <<"b","o","o","k"," ","i","t">>, <<"p","r","o","c","e","e","d">> >>

\* app.py:314
negative ==
  << <<"c","a","n","c","e","l">>, <<"n","o">>, <<"r","e","s","t","a","r","t">>,
     <<"s","t","a","r","t"," ","o","v","e","r">> >>

\* nlp_utils.py:218-222, the values of word_to_num_keys
word_to_num_vals == <<1, 2, 3, 4, 5, 6, 7, 8, 9, 10, 1, 1, 1, 2, 2>>

NotSpecified == <<"N","o","t"," ","s","p","e","c","i","f","i","e","d">>

----------------------------------------------------------------------------
(* Calendar dates: <<year, month, day>> *)

IsLeap(y) == (y % 4 = 0 /\ y % 100 # 0) \/ y % 400 = 0
DaysInMonth(y, m) ==
  IF m = 2 THEN (IF IsLeap(y) THEN 29 ELSE 28)
  ELSE IF m \in {4, 6, 9, 11} THEN 30 ELSE 31
IsDate(y, m, d) == y >= 1 /\ y <= 9999 /\ m \in 1..12 /\ d >= 1 /\ d <= DaysInMonth(y, m)
\* date1 > date2
DateAfter(p, q) ==
  \/ p[1] > q[1]
  \/ p[1] = q[1] /\ p[2] > q[2]
  \/ p[1] = q[1] /\ p[2] = q[2] /\ p[3] > q[3]

Digit(n) == DigitChars[n + 1]
Pad2(n) == <<Digit((n \div 10) % 10), Digit(n % 10)>>
\* datetime.strftime('%Y-%m-%d')
strftime(dt) ==
  Pad2(dt[1] \div 100) \o Pad2(dt[1] % 100) \o <<"-">> \o Pad2(dt[2]) \o <<"-">> \o Pad2(dt[3])

\* the fields of s between occurrences of the character sep
RECURSIVE FieldsFrom(_, _, _, _, _)
FieldsFrom(s, sep, i, cur, acc) ==
  IF i > Len(s) THEN Append(acc, cur)
  ELSE IF s[i] = sep THEN FieldsFrom(s, sep, i + 1, << >>, Append(acc, cur))
       ELSE FieldsFrom(s, sep, i + 1, Append(cur, s[i]), acc)
AllDigits(s) == Len(s) > 0 /\ \A i \in 1..Len(s) : IsDigit(s[i])

\* datetime.strptime(s, fmt) for the three formats of the source; yfirst tells whether
\* the year is the first field (%Y-%m-%d) or the last (%d/%m/%Y, %d-%m-%Y).
\* None stands for ValueError.
strptime(s, sep, yfirst) ==
  LET f == FieldsFrom(s, sep, 1, << >>, << >>)
  IN IF Len(f) # 3 THEN None
     ELSE LET ys == IF yfirst THEN f[1] ELSE f[3]
              day == IF yfirst THEN f[3] ELSE f[1]
              \* %d also takes a day padded with a space, " 5"
              ds == IF Len(day) = 2 /\ day[1] = " " THEN <<day[2]>> ELSE day
          IN IF ~AllDigits(ys) \/ ~AllDigits(f[2]) \/ ~AllDigits(ds) THEN None
             ELSE IF Len(ys) # 4 \/ Len(f[2]) > 2 \/ Len(ds) > 2 THEN None
             ELSE IF IsDate(int(ys), int(f[2]), int(ds))
                  THEN Some(<<int(ys), int(f[2]), int(ds)>>)
                  ELSE None

\* re.search for a pattern made of digit groups \d{lo,hi} and literal characters:
\* MatchEnd is the position after the match that starts at pos, 0 when there is none
\* (greedy groups, backtracking).
PDigits(lo, hi) == [k |-> "d", lo |-> lo, hi |-> hi, ch |-> ""]
PChar(c) == [k |-> "c", lo |-> 0, hi |-> 0, ch |-> c]
RECURSIVE MatchEnd(_, _, _, _)
MatchEnd(s, pos, pat, k) ==
  IF k > Len(pat) THEN pos
  ELSE IF pat[k].k = "c"
       THEN IF pos <= Len(s) /\ s[pos] = pat[k].ch THEN MatchEnd(s, pos + 1, pat, k + 1) ELSE 0
       ELSE LET ok == {n \in pat[k].lo..pat[k].hi :
                         /\ pos + n - 1 <= Len(s)
                         /\ \A i \in pos..(pos + n - 1) : IsDigit(s[i])
                         /\ MatchEnd(s, pos + n, pat, k + 1) # 0}
            IN IF ok = {} THEN 0
               ELSE MatchEnd(s, pos + (CHOOSE n \in ok : \A m \in ok : n >= m), pat, k + 1)
re_search(pat, s) ==
  LET starts == {i \in 1..Len(s) : MatchEnd(s, i, pat, 1) # 0}
  IN IF starts = {} THEN None
     ELSE LET i == CHOOSE i \in starts : \A j \in starts : i <= j
          IN Some(SubSeq(s, i, MatchEnd(s, i, pat, 1) - 1))

\* nlp_utils.py:101-105
date_patterns ==
  << [pat |-> <<PDigits(4, 4), PChar("-"), PDigits(1, 2), PChar("-"), PDigits(1, 2)>>,
      sep |-> "-", yfirst |-> TRUE],
     [pat |-> <<PDigits(1, 2), PChar("/"), PDigits(1, 2), PChar("/"), PDigits(4, 4)>>,
      sep |-> "/", yfirst |-> FALSE],
     [pat |-> <<PDigits(1, 2), PChar("-"), PDigits(1, 2), PChar("-"), PDigits(4, 4)>>,
      sep |-> "-", yfirst |-> FALSE] >>

----------------------------------------------------------------------------
(* Field extractors, nlp_utils.py *)

\* word.strip('.,!?;:"()[]{}')
clean_word(word) == strip_chars(word, PunctChars)

\* The first element of a sequence that satisfies a test, as an Optional
FirstIndex(n, Test(_)) ==
  LET hits == {i \in 1..n : Test(i)}
  IN IF hits = {} THEN 0 ELSE CHOOSE i \in hits : \A j \in hits : i <= j

\* extract_name(text); ner is the text of the first PERSON entity the spaCy pipeline
\* finds in text.strip(), None when it finds none.
extract_name(text, ner) ==
  IF strip(text) = << >> THEN None
  ELSE IF ner # None THEN ner
  ELSE LET words == split(text)
           Qualifies(i) ==
             LET w == clean_word(words[i])
             IN istitle(w) /\ Len(w) > 1 /\ ~InList(w, skip_words) /\ isalpha(w)
           k == FirstIndex(Len(words), Qualifies)
       IN IF k = 0 THEN None ELSE Some(clean_word(words[k]))

\* The fallback loop of parse_date, nlp_utils.py:107-114, from pattern k on
RECURSIVE parse_date_patterns(_, _)
parse_date_patterns(text, k) ==
  IF k > Len(date_patterns) THEN None
  ELSE LET m == re_search(date_patterns[k].pat, text)
           parsed == IF m = None THEN None
                     ELSE strptime(The(m), date_patterns[k].sep, date_patterns[k].yfirst)
       IN IF parsed # None THEN Some(strftime(The(parsed)))
          ELSE parse_date_patterns(text, k + 1)

\* parse_date(text, prefer_future=True); dp is what dateparser.parse returns for
\* text.strip().lower(): None or a date.
parse_date(text, dp) ==
  IF strip(text) = << >> THEN None
  ELSE IF dp # None THEN Some(strftime(The(dp)))
  ELSE parse_date_patterns(text, 1)

\* A variant of is_yes that tries the approximate match of the whole text before the
\* exact lists
is_yes_approximate_first(text) ==
  IF strip(text) = << >> THEN None
  ELSE LET text_lower == lower(strip(text))
           Near(w, list, k) == \E i \in 1..Len(list) : ScoreGE(fuzz_ratio(w, list[i]), k)
           words == split(text_lower)
           yes_count == Cardinality({i \in 1..Len(words) : Near(words[i], yes_words, 70)})
           no_count == Cardinality({i \in 1..Len(words) : Near(words[i], no_words, 70)})
       IN IF Near(text_lower, yes_words, 80) THEN Some(TRUE)
          ELSE IF Near(text_lower, no_words, 80) THEN Some(FALSE)
          ELSE IF InList(text_lower, yes_words) THEN Some(TRUE)
          ELSE IF InList(text_lower, no_words) THEN Some(FALSE)
          ELSE IF yes_count > no_count THEN Some(TRUE)
          ELSE IF no_count > yes_count THEN Some(FALSE)
          ELSE None

\* is_yes(text)
is_yes(text) ==
  IF strip(text) = << >> THEN None
  ELSE LET text_lower == lower(strip(text))
           Near(w, list, k) == \E i \in 1..Len(list) : ScoreGE(fuzz_ratio(w, list[i]), k)
           words == split(text_lower)
           yes_count == Cardinality({i \in 1..Len(words) : Near(words[i], yes_words, 70)})
           no_count == Cardinality({i \in 1..Len(words) : Near(words[i], no_words, 70)})
       IN IF InList(text_lower, yes_words) THEN Some(TRUE)
          ELSE IF InList(text_lower, no_words) THEN Some(FALSE)
          ELSE IF Near(text_lower, yes_words, 80) THEN Some(TRUE)
          ELSE IF Near(text_lower, no_words, 80) THEN Some(FALSE)
          ELSE IF yes_count > no_count THEN Some(TRUE)
          ELSE IF no_count > yes_count THEN Some(FALSE)
          ELSE None

\* A variant of parse_guests that returns the first digit sequence whatever its value
parse_guests_unbounded(text) ==
  IF strip(text) = << >> THEN None
  ELSE LET text_lower == lower(strip(text))
           numbers == findall_digits(text)
           words == split(text_lower)
           Exact(i) == InList(clean_word(words[i]), word_to_num_keys)
           e == FirstIndex(Len(words), Exact)
           NearKey(i, j) == ScoreGE(fuzz_ratio(clean_word(words[i]), word_to_num_keys[j]), 80)
           Fuzzy(i) == \E j \in 1..Len(word_to_num_keys) : NearKey(i, j)
           f == FirstIndex(Len(words), Fuzzy)
       IN IF \E i \in 1..Len(single_indicators) : contains(text_lower, single_indicators[i])
          THEN Some(1)
          ELSE IF Len(numbers) > 0 THEN Some(int(numbers[1]))
          ELSE IF e # 0
               THEN Some(word_to_num_vals[IndexIn(word_to_num_keys, clean_word(words[e]))])
          ELSE IF f # 0
               THEN LET NearF(j) == NearKey(f, j)
                    IN Some(word_to_num_vals[FirstIndex(Len(word_to_num_keys), NearF)])
          ELSE None

\* parse_guests(text)
parse_guests(text) ==
  IF strip(text) = << >> THEN None
  ELSE LET text_lower == lower(strip(text))
           numbers == findall_digits(text)
           InRange(i) == 1 <= int(numbers[i]) /\ int(numbers[i]) <= 10
           n == FirstIndex(Len(numbers), InRange)
           words == split(text_lower)
           Exact(i) == InList(clean_word(words[i]), word_to_num_keys)
           e == FirstIndex(Len(words), Exact)
           NearKey(i, j) == ScoreGE(fuzz_ratio(clean_word(words[i]), word_to_num_keys[j]), 80)
           Fuzzy(i) == \E j \in 1..Len(word_to_num_keys) : NearKey(i, j)
           f == FirstIndex(Len(words), Fuzzy)
       IN IF \E i \in 1..Len(single_indicators) : contains(text_lower, single_indicators[i])
          THEN Some(1)
          ELSE IF n # 0 THEN Some(int(numbers[n]))
          ELSE IF e # 0
               THEN Some(word_to_num_vals[IndexIn(word_to_num_keys, clean_word(words[e]))])
          ELSE IF f # 0
               THEN LET NearF(j) == NearKey(f, j)
                    IN Some(word_to_num_vals[FirstIndex(Len(word_to_num_keys), NearF)])
          ELSE None

\* A variant of validate_date_order that accepts a check-out on the check-in day
validate_date_order_allows_equal(checkin_str, checkout_str) ==
  LET checkin == strptime(checkin_str, "-", TRUE)
      checkout == strptime(checkout_str, "-", TRUE)
  IN IF checkin = None \/ checkout = None THEN FALSE
     ELSE ~DateAfter(The(checkin), The(checkout))

\* A variant of validate_date_order that compares the month and the day only
validate_date_order_ignores_year(checkin_str, checkout_str) ==
  LET checkin == strptime(checkin_str, "-", TRUE)
      checkout == strptime(checkout_str, "-", TRUE)
  IN IF checkin = None \/ checkout = None THEN FALSE
     ELSE DateAfter(<<1, The(checkout)[2], The(checkout)[3]>>,
                    <<1, The(checkin)[2], The(checkin)[3]>>)

\* validate_date_order(checkin_str, checkout_str)
validate_date_order(checkin_str, checkout_str) ==
  LET checkin == strptime(checkin_str, "-", TRUE)
      checkout == strptime(checkout_str, "-", TRUE)
  IN IF checkin = None \/ checkout = None THEN FALSE
     ELSE DateAfter(The(checkout), The(checkin))

\* A variant of payment_method_for that takes the first method that scores above 60
payment_method_first_above(user_message) ==
  LET payment_method == lower(strip(user_message))
      score(i) == fuzz_ratio(payment_method, valid_methods[i])
      above == {i \in 1..Len(valid_methods) : ScoreGT(score(i), 60)}
      first == CHOOSE i \in above : \A j \in above : i <= j
  IN IF InList(payment_method, skip_tokens) THEN NotSpecified
     ELSE IF above # {} THEN title(valid_methods[first])
     ELSE title(payment_method)

\* The payment method stored for an input, app.py:253-274
payment_method_for(user_message) ==
  LET payment_method == lower(strip(user_message))
      score(i) == fuzz_ratio(payment_method, valid_methods[i])
      above == {i \in 1..Len(valid_methods) : ScoreGT(score(i), 60)}
      \* the loop keeps a method only when it scores strictly above the best so far
      best == CHOOSE i \in above :
                \A j \in above : /\ ~ScoreGTScore(score(j), score(i))
                                 /\ (j < i => ScoreGTScore(score(i), score(j)))
  IN IF InList(payment_method, skip_tokens) THEN NotSpecified
     ELSE IF above # {} THEN title(valid_methods[best])
     ELSE title(payment_method)

----------------------------------------------------------------------------
(* The inputs of the model *)

M_alice == <<"I","'","m"," ","A","l","i","c","e">>
M_date18 == <<"2","0","2","4","-","0","1","-","1","8">>
M_date20 == <<"2","0","2","4","-","0","1","-","2","0">>
M_arrive == <<" ","a","r","r","i","v","e"," ","2","0","/","0","1","/","2","0","2","4">>
M_two == <<"2">>
M_justme == <<"j","u","s","t"," ","m","e">>
M_dozen == <<"a"," ","d","o","z","e","n">>
M_12people == <<"1","2"," ","p","e","o","p","l","e">>
M_yes == <<"y","e","s">>
M_no == <<"n","o">>
M_maybe == <<"m","a","y","b","e">>
M_skip == <<"s","k","i","p">>
M_crdit == <<"c","r","d","i","t"," ","c","a","r","d">>
M_bitcoin == <<"b","i","t","c","o","i","n">>
M_confirm == <<"c","o","n","f","i","r","m">>
M_cancel == <<" ","C","A","N","C","E","L"," ">>
M_empty == << >>
M_blank == <<" "," ">>
M_lastday == <<"9","9","9","9","-","1","2","-","3","1">>
M_later == <<" ","L","a","t","e","r"," ">>
M_itcard == <<"i","t"," ","c","a","r","d">>
\* The messages a client sends
Messages ==
  { M_alice, M_date18, M_date20, M_arrive, M_two, M_12people, M_yes, M_no, M_maybe,
    M_skip, M_confirm, M_cancel, M_empty, M_blank }
\* Further texts on which the extractors are computed
OtherTexts == {M_justme, M_dozen, M_crdit, M_bitcoin, M_lastday, M_later, M_itcard}

\* The identifiers uuid.uuid4() can return, and an identifier no session ever had
SessionIds == {"s1", "s2"}
StaleId == "stale"
\* The table is cut off at MaxBookings rows
MaxBookings == 2

\* The names the NER pipeline can label PERSON
PersonLexicon == {<<"A","l","i","c","e">>}
ner_outcomes(text) ==
  LET words == split(text)
  IN {None} \cup {Some(clean_word(words[i])) :
                    i \in {j \in 1..Len(words) : clean_word(words[j]) \in PersonLexicon}}

\* dateparser.parse(clean_text): a text that is exactly a date in ISO form is parsed to
\* that date; a text with a date among other words is parsed or not; no other text of
\* Messages is a date.
dateparser_outcomes(clean_text) ==
  LET exact == strptime(clean_text, "-", TRUE)
      found == parse_date_patterns(clean_text, 1)
  IN IF exact # None THEN {exact}
     ELSE IF found # None THEN {None, strptime(The(found), "-", TRUE)}
     ELSE {None}

SinkOutcomes == {"ok", "fail_before_commit", "fail_after_commit"}

----------------------------------------------------------------------------
(* The extractors on the inputs of the model, computed once *)

Texts == {strip(m) : m \in Messages \cup OtherTexts}
strip_on == [m \in Messages \cup OtherTexts |-> strip(m)]
ner_outcomes_on == [t \in Texts |-> ner_outcomes(t)]
dateparser_outcomes_on == [t \in Texts |-> dateparser_outcomes(lower(strip(t)))]
extract_name_on == [t \in Texts |-> [n \in ner_outcomes(t) |-> extract_name(t, n)]]
parse_date_on ==
  [t \in Texts |-> [d \in dateparser_outcomes(lower(strip(t))) |-> parse_date(t, d)]]
parse_guests_on == [t \in Texts |-> parse_guests(t)]
is_yes_on == [t \in Texts |-> is_yes(t)]
payment_method_on == [t \in Texts |-> payment_method_for(t)]
confirm_response_on == [t \in Texts |-> strip(lower(t))]
\* every date string a session can hold
DateStrings == UNION {UNION {parse_date_on[t][d] : d \in DOMAIN parse_date_on[t]} : t \in Texts}
validate_date_order_on ==
  [a \in DateStrings |-> [b \in DateStrings |-> validate_date_order(a, b)]]

\* What an external component answers on one turn: the NER pipeline, dateparser, sqlite
NoOracle == [ner |-> None, dp |-> None, sink |-> "ok"]
\* What the external components can answer on a turn at a step
Oracles(step, user_message) ==
  CASE step = "name" -> {[NoOracle EXCEPT !.ner = n] : n \in ner_outcomes_on[user_message]}
    [] step \in {"checkin", "checkout"} ->
         {[NoOracle EXCEPT !.dp = d] : d \in dateparser_outcomes_on[user_message]}
    [] step = "confirm" -> {[NoOracle EXCEPT !.sink = s] : s \in SinkOutcomes}
    [] OTHER -> {NoOracle}

----------------------------------------------------------------------------
(* Sessions, replies and the bookings table, app.py *)

EmptyData == << >>
Has(d, k) == k \in DOMAIN d
Put(d, k, v) == [x \in (DOMAIN d) \cup {k} |-> IF x = k THEN v ELSE d[x]]
\* dict.get(k, default)
Get(d, k, default) == IF Has(d, k) THEN d[k] ELSE default

\* The order of the steps, app.py:152-298
Steps == <<"name", "checkin", "checkout", "guests", "breakfast", "payment", "confirm", "complete">>
\* The data key each collecting step writes
Fields == <<"name", "checkin_date", "checkout_date", "guests", "breakfast", "payment_method">>

\* The dictionary process_conversation_step returns; the reply text is kept as the
\* name of its template and the values formatted into it.
Reply(text, args) == [reply |-> text, args |-> args, complete |-> FALSE, booking |-> None]

\* The result of a call: the session state and the table it leaves, and either the
\* value returned or raised = TRUE for an exception.
Returned(state, table, value) == [state |-> state, table |-> table, raised |-> FALSE, value |-> value]
Raised(state, table) == [state |-> state, table |-> table, raised |-> TRUE, value |-> None]

\* A variant of save_booking_to_db that returns the record under the identifier of the
\* row before it
save_booking_to_db_previous_id(session_id, booking_data, table, sink) ==
  IF \E k \in {"name", "checkin_date", "checkout_date", "guests"} : ~Has(booking_data, k)
  THEN [table |-> table, raised |-> TRUE, record |-> None]
  ELSE IF sink = "fail_before_commit" THEN [table |-> table, raised |-> TRUE, record |-> None]
  ELSE LET row == [id |-> Len(table) + 1,
                   session_id |-> session_id,
                   name |-> booking_data["name"],
                   checkin |-> booking_data["checkin_date"],
                   checkout |-> booking_data["checkout_date"],
                   guests |-> booking_data["guests"],
                   breakfast |-> IF Get(booking_data, "breakfast", FALSE) THEN 1 ELSE 0,
                   payment_method |-> Get(booking_data, "payment_method", NotSpecified)]
       IN IF sink = "fail_after_commit"
          THEN [table |-> Append(table, row), raised |-> TRUE, record |-> None]
          ELSE [table |-> Append(table, row), raised |-> FALSE,
                record |-> Some([row EXCEPT !.breakfast = (row.breakfast # 0),
                                            !.id = Len(table)])]

\* save_booking_to_db(session_id, booking_data); sink is how sqlite fares:
\* "ok", "fail_before_commit" (connect, INSERT or commit raises: no row is kept),
\* "fail_after_commit" (the read-back or close raises: the row is kept).
save_booking_to_db(session_id, booking_data, table, sink) ==
  IF \E k \in {"name", "checkin_date", "checkout_date", "guests"} : ~Has(booking_data, k)
  THEN [table |-> table, raised |-> TRUE, record |-> None]
  ELSE IF sink = "fail_before_commit" THEN [table |-> table, raised |-> TRUE, record |-> None]
  ELSE LET row == [id |-> Len(table) + 1,
                   session_id |-> session_id,
                   name |-> booking_data["name"],
                   checkin |-> booking_data["checkin_date"],
                   checkout |-> booking_data["checkout_date"],
                   guests |-> booking_data["guests"],
                   breakfast |-> IF Get(booking_data, "breakfast", FALSE) THEN 1 ELSE 0,
                   payment_method |-> Get(booking_data, "payment_method", NotSpecified)]
       IN IF sink = "fail_after_commit"
          THEN [table |-> Append(table, row), raised |-> TRUE, record |-> None]
          ELSE [table |-> Append(table, row), raised |-> FALSE,
                record |-> Some([row EXCEPT !.breakfast = (row.breakfast # 0)])]

\* Step 1, app.py:152-167
step_name(session_state, user_message, table, o) ==
  LET name == extract_name_on[user_message][o.ner]
  IN IF name # None /\ The(name) # << >>
     THEN Returned([session_state EXCEPT !.data = Put(@, "name", The(name)), !.step = "checkin"],
                   table, Reply("ask_checkin", <<The(name)>>))
     ELSE Returned(session_state, table, Reply("reprompt_name", << >>))

\* A variant of step 2 that stores the date under the key of step 3
step_checkin_wrong_key(session_state, user_message, table, o) ==
  LET checkin_date == parse_date_on[user_message][o.dp]
  IN IF checkin_date # None /\ The(checkin_date) # << >>
     THEN Returned([session_state EXCEPT !.data = Put(@, "checkout_date", The(checkin_date)),
                                         !.step = "checkout"],
                   table, Reply("ask_checkout", <<The(checkin_date)>>))
     ELSE Returned(session_state, table, Reply("reprompt_checkin", << >>))

\* Step 2, app.py:170-185
step_checkin(session_state, user_message, table, o) ==
  LET checkin_date == parse_date_on[user_message][o.dp]
  IN IF checkin_date # None /\ The(checkin_date) # << >>
     THEN Returned([session_state EXCEPT !.data = Put(@, "checkin_date", The(checkin_date)),
                                         !.step = "checkout"],
                   table, Reply("ask_checkout", <<The(checkin_date)>>))
     ELSE Returned(session_state, table, Reply("reprompt_checkin", << >>))

\* A variant of step 3 without the call of validate_date_order
step_checkout_unvalidated(session_state, user_message, table, o) ==
  LET checkout_date == parse_date_on[user_message][o.dp]
      data == session_state.data
  IN IF checkout_date # None /\ The(checkout_date) # << >>
     THEN IF ~Has(data, "checkin_date") THEN Raised(session_state, table)
          ELSE Returned([session_state EXCEPT
                           !.data = Put(@, "checkout_date", The(checkout_date)),
                           !.step = "guests"],
                        table, Reply("ask_guests", <<The(checkout_date)>>))
     ELSE Returned(session_state, table, Reply("reprompt_checkout", << >>))

\* Step 3, app.py:188-211
step_checkout(session_state, user_message, table, o) ==
  LET checkout_date == parse_date_on[user_message][o.dp]
      data == session_state.data
  IN IF checkout_date # None /\ The(checkout_date) # << >>
     THEN IF ~Has(data, "checkin_date") THEN Raised(session_state, table)
          ELSE IF validate_date_order_on[data["checkin_date"]][The(checkout_date)]
               THEN Returned([session_state EXCEPT
                                !.data = Put(@, "checkout_date", The(checkout_date)),
                                !.step = "guests"],
                             table, Reply("ask_guests", <<The(checkout_date)>>))
               ELSE Returned(session_state, table,
                             Reply("checkout_must_be_after", <<data["checkin_date"]>>))
     ELSE Returned(session_state, table, Reply("reprompt_checkout", << >>))

\* A variant of step 4 that takes one guest when parse_guests finds none
step_guests_defaults(session_state, user_message, table, o) ==
  LET guests == parse_guests_on[user_message]
      n == IF guests # None /\ The(guests) # 0 THEN The(guests) ELSE 1
  IN Returned([session_state EXCEPT !.data = Put(@, "guests", n), !.step = "breakfast"],
              table, Reply("ask_breakfast", <<n>>))

\* Step 4, app.py:214-230
step_guests(session_state, user_message, table, o) ==
  LET guests == parse_guests_on[user_message]
  IN IF guests # None /\ The(guests) # 0
     THEN Returned([session_state EXCEPT !.data = Put(@, "guests", The(guests)),
                                         !.step = "breakfast"],
                   table, Reply("ask_breakfast", <<The(guests)>>))
     ELSE Returned(session_state, table, Reply("reprompt_guests", << >>))

\* A variant of step 5 that goes on to the summary without asking for the payment
step_breakfast_skips_payment(session_state, user_message, table, o) ==
  LET breakfast_response == is_yes_on[user_message]
  IN IF breakfast_response # None
     THEN Returned([session_state EXCEPT !.data = Put(@, "breakfast", The(breakfast_response)),
                                         !.step = "confirm"],
                   table, Reply("ask_payment", <<The(breakfast_response)>>))
     ELSE Returned(session_state, table, Reply("reprompt_breakfast", << >>))

\* Step 5, app.py:233-249
step_breakfast(session_state, user_message, table, o) ==
  LET breakfast_response == is_yes_on[user_message]
  IN IF breakfast_response # None
     THEN Returned([session_state EXCEPT !.data = Put(@, "breakfast", The(breakfast_response)),
                                         !.step = "payment"],
                   table, Reply("ask_payment", <<The(breakfast_response)>>))
     ELSE Returned(session_state, table, Reply("reprompt_breakfast", << >>))

\* Step 6, app.py:252-295
step_payment(session_state, user_message, table, o) ==
  LET data == Put(session_state.data, "payment_method", payment_method_on[user_message])
      after == [session_state EXCEPT !.data = data, !.step = "confirm"]
  IN IF \E k \in {"name", "checkin_date", "checkout_date", "guests"} : ~Has(data, k)
     THEN Raised(after, table)
     ELSE Returned(after, table,
                   Reply("summary",
                         <<data["name"], data["checkin_date"], data["checkout_date"],
                           data["guests"], Get(data, "breakfast", FALSE),
                           Get(data, "payment_method", NotSpecified)>>))

\* A variant of step 7 whose cancellation resets the step and keeps the data
step_confirm_keeps_data(session_state, user_message, table, o) ==
  LET resp == confirm_response_on[user_message]
  IN IF InList(resp, affirmative)
     THEN LET saved == save_booking_to_db(Get(session_state, "session_id", ""),
                                          session_state.data, table, o.sink)
          IN IF saved.raised THEN Raised(session_state, saved.table)
             ELSE Returned([session_state EXCEPT !.step = "complete"], saved.table,
                           [reply |-> "booking_confirmed",
                            args |-> <<The(saved.record).id>>,
                            complete |-> TRUE,
                            booking |-> saved.record])
     ELSE IF InList(resp, negative)
          THEN Returned([session_state EXCEPT !.step = "name"],
                        table, Reply("booking_cancelled", << >>))
          ELSE Returned(session_state, table, Reply("reprompt_confirm", << >>))

\* A variant of step 7 that sets the step to complete before it calls the sink
step_confirm_marks_first(session_state, user_message, table, o) ==
  LET resp == confirm_response_on[user_message]
      marked == [session_state EXCEPT !.step = "complete"]
  IN IF InList(resp, affirmative)
     THEN LET saved == save_booking_to_db(Get(session_state, "session_id", ""),
                                          session_state.data, table, o.sink)
          IN IF saved.raised THEN Raised(marked, saved.table)
             ELSE Returned(marked, saved.table,
                           [reply |-> "booking_confirmed",
                            args |-> <<The(saved.record).id>>,
                            complete |-> TRUE,
                            booking |-> saved.record])
     ELSE IF InList(resp, negative)
          THEN Returned([session_state EXCEPT !.step = "name", !.data = EmptyData],
                        table, Reply("booking_cancelled", << >>))
          ELSE Returned(session_state, table, Reply("reprompt_confirm", << >>))

\* A variant of step 7 that compares the text as typed, without lower()
step_confirm_case_sensitive(session_state, user_message, table, o) ==
  LET resp == strip(user_message)
  IN IF InList(resp, affirmative)
     THEN LET saved == save_booking_to_db(Get(session_state, "session_id", ""),
                                          session_state.data, table, o.sink)
          IN IF saved.raised THEN Raised(session_state, saved.table)
             ELSE Returned([session_state EXCEPT !.step = "complete"], saved.table,
                           [reply |-> "booking_confirmed",
                            args |-> <<The(saved.record).id>>,
                            complete |-> TRUE,
                            booking |-> saved.record])
     ELSE IF InList(resp, negative)
          THEN Returned([session_state EXCEPT !.step = "name", !.data = EmptyData],
                        table, Reply("booking_cancelled", << >>))
          ELSE Returned(session_state, table, Reply("reprompt_confirm", << >>))

\* A variant of step 7 that takes every text that is not affirmative for a cancellation
step_confirm_else_cancels(session_state, user_message, table, o) ==
  LET resp == confirm_response_on[user_message]
  IN IF InList(resp, affirmative)
     THEN LET saved == save_booking_to_db(Get(session_state, "session_id", ""),
                                          session_state.data, table, o.sink)
          IN IF saved.raised THEN Raised(session_state, saved.table)
             ELSE Returned([session_state EXCEPT !.step = "complete"], saved.table,
                           [reply |-> "booking_confirmed",
                            args |-> <<The(saved.record).id>>,
                            complete |-> TRUE,
                            booking |-> saved.record])
     ELSE Returned([session_state EXCEPT !.step = "name", !.data = EmptyData],
                   table, Reply("booking_cancelled", << >>))

\* Step 7, app.py:298-329
step_confirm(session_state, user_message, table, o) ==
  LET resp == confirm_response_on[user_message]
  IN IF InList(resp, affirmative)
     THEN LET saved == save_booking_to_db(Get(session_state, "session_id", ""),
                                          session_state.data, table, o.sink)
          IN IF saved.raised THEN Raised(session_state, saved.table)
             ELSE IF saved.record = None
                  THEN Raised([session_state EXCEPT !.step = "complete"], saved.table)
                  ELSE Returned([session_state EXCEPT !.step = "complete"], saved.table,
                                [reply |-> "booking_confirmed",
                                 args |-> <<The(saved.record).id>>,
                                 complete |-> TRUE,
                                 booking |-> saved.record])
     ELSE IF InList(resp, negative)
          THEN Returned([session_state EXCEPT !.step = "name", !.data = EmptyData],
                        table, Reply("booking_cancelled", << >>))
          ELSE Returned(session_state, table, Reply("reprompt_confirm", << >>))

\* A variant of the default branch that resets the session and then reads the text as
\* the answer to the first prompt
step_default_takes_name(session_state, user_message, table, o) ==
  step_name([session_state EXCEPT !.step = "name", !.data = EmptyData],
            user_message, table, o)

\* A variant of the default branch that goes back to step name and keeps the data
step_default_keeps_data(session_state, user_message, table, o) ==
  Returned([session_state EXCEPT !.step = "name"], table, Reply("start_over", << >>))

\* The default branch, app.py:331-339
step_default(session_state, user_message, table, o) ==
  Returned([session_state EXCEPT !.step = "name", !.data = EmptyData],
           table, Reply("start_over", << >>))

\* process_conversation_step(session_state, user_message)
process_conversation_step(session_state, user_message, table, o) ==
  LET step == session_state.step
  IN CASE step = "name" -> step_name(session_state, user_message, table, o)
       [] step = "checkin" -> step_checkin(session_state, user_message, table, o)
       [] step = "checkout" -> step_checkout(session_state, user_message, table, o)
       [] step = "guests" -> step_guests(session_state, user_message, table, o)
       [] step = "breakfast" -> step_breakfast(session_state, user_message, table, o)
       [] step = "payment" -> step_payment(session_state, user_message, table, o)
       [] step = "confirm" -> step_confirm(session_state, user_message, table, o)
       [] OTHER -> step_default(session_state, user_message, table, o)

----------------------------------------------------------------------------
(* The session registry and the endpoint, app.py:112-134 and 348-404 *)

\* A variant of get_or_create_session that opens the new session under the identifier
\* the client sent, when it sent one
get_or_create_session_adopts_id(session_id, sessions, new_session_id) ==
  IF session_id # None /\ The(session_id) # "" /\ The(session_id) \in DOMAIN sessions
  THEN [id |-> The(session_id), sessions |-> sessions]
  ELSE IF session_id # None /\ The(session_id) # ""
  THEN [id |-> The(session_id),
        sessions |-> Put(sessions, The(session_id), [step |-> "name", data |-> EmptyData])]
  ELSE [id |-> new_session_id,
        sessions |-> Put(sessions, new_session_id, [step |-> "name", data |-> EmptyData])]

\* get_or_create_session(session_id); new_session_id is what uuid.uuid4() returns
get_or_create_session(session_id, sessions, new_session_id) ==
  IF session_id # None /\ The(session_id) # "" /\ The(session_id) \in DOMAIN sessions
  THEN [id |-> The(session_id), sessions |-> sessions]
  ELSE [id |-> new_session_id,
        sessions |-> Put(sessions, new_session_id, [step |-> "name", data |-> EmptyData])]

NoResponse == [status |-> 0, error |-> "", body |-> None, session_id |-> None]
BadRequest(error) == [status |-> 400, error |-> error, body |-> None, session_id |-> None]

\* A variant of respond in which every session of the registry is the one state object
respond_shared_state(sessions, session_id, r) ==
  [sessions |-> [s \in DOMAIN sessions |-> r.state],
   table |-> r.table,
   response |->
     IF r.raised
     THEN [status |-> 500, error |-> "Internal server error. Please try again.",
           body |-> None, session_id |-> Some(session_id)]
     ELSE [status |-> 200, error |-> "", body |-> Some(r.value),
           session_id |-> Some(session_id)]]

\* The end of chat_endpoint, app.py:393-404: r is what process_conversation_step did
respond(sessions, session_id, r) ==
  [sessions |-> Put(sessions, session_id, r.state),
   table |-> r.table,
   response |->
     IF r.raised
     THEN [status |-> 500, error |-> "Internal server error. Please try again.",
           body |-> None, session_id |-> Some(session_id)]
     ELSE [status |-> 200, error |-> "", body |-> Some(r.value),
           session_id |-> Some(session_id)]]

\* A variant of chat_endpoint that looks the session up, or creates it, before it
\* looks at the message
chat_endpoint_resolves_first(request, sessions, table, new_session_id, o) ==
  IF ~request.json
  THEN [sessions |-> sessions, table |-> table,
        response |-> BadRequest("Content-Type must be application/json")]
  ELSE \* the session is resolved here
       LET got == get_or_create_session(request.session_id, sessions, new_session_id)
       IN IF ~request.has_message
          THEN [sessions |-> got.sessions, table |-> table,
                response |-> BadRequest("Missing required field: message")]
          ELSE LET user_message == strip_on[request.message]
                   session_state == Put(got.sessions[got.id], "session_id", got.id)
               IN IF user_message = << >>
                  THEN [sessions |-> got.sessions, table |-> table,
                        response |-> BadRequest("Message cannot be empty")]
                  ELSE respond(got.sessions, got.id,
                               process_conversation_step(session_state, user_message, table, o))

\* A variant of chat_endpoint that does not store the identifier in the session state
chat_endpoint_forgets_session_id(request, sessions, table, new_session_id, o) ==
  IF ~request.json
  THEN [sessions |-> sessions, table |-> table,
        response |-> BadRequest("Content-Type must be application/json")]
  ELSE IF ~request.has_message
  THEN [sessions |-> sessions, table |-> table,
        response |-> BadRequest("Missing required field: message")]
  ELSE LET user_message == strip_on[request.message]
       IN IF user_message = << >>
          THEN [sessions |-> sessions, table |-> table,
                response |-> BadRequest("Message cannot be empty")]
          ELSE LET got == get_or_create_session(request.session_id, sessions, new_session_id)
               IN respond(got.sessions, got.id,
                          process_conversation_step(got.sessions[got.id], user_message, table, o))

\* chat_endpoint() on a request [json, has_message, message, session_id]
chat_endpoint(request, sessions, table, new_session_id, o) ==
  IF ~request.json
  THEN [sessions |-> sessions, table |-> table,
        response |-> BadRequest("Content-Type must be application/json")]
  ELSE IF ~request.has_message
  THEN [sessions |-> sessions, table |-> table,
        response |-> BadRequest("Missing required field: message")]
  ELSE LET user_message == strip_on[request.message]
       IN IF user_message = << >>
          THEN [sessions |-> sessions, table |-> table,
                response |-> BadRequest("Message cannot be empty")]
          ELSE LET got == get_or_create_session(request.session_id, sessions, new_session_id)
                   session_state == Put(got.sessions[got.id], "session_id", got.id)
               IN respond(got.sessions, got.id,
                          process_conversation_step(session_state, user_message, table, o))

\* The requests a client can send: it knows the identifiers it was given
ClientIds == {None, Some(""), Some(StaleId)} \cup {Some(s) : s \in DOMAIN active_sessions}
Requests ==
  {[json |-> FALSE, has_message |-> FALSE, message |-> << >>, session_id |-> None]}
  \cup {[json |-> TRUE, has_message |-> FALSE, message |-> << >>, session_id |-> s] :
          s \in ClientIds}
  \cup {[json |-> TRUE, has_message |-> TRUE, message |-> m, session_id |-> s] :
          m \in Messages, s \in ClientIds}

\* Whether the request is answered by an existing session, and the step it is answered at
Resolves(request) ==
  /\ request.session_id # None
  /\ The(request.session_id) \in DOMAIN active_sessions
StepFor(request) ==
  IF Resolves(request) THEN active_sessions[The(request.session_id)].step ELSE "name"
Creates(request) ==
  request.json /\ request.has_message /\ strip_on[request.message] # << >> /\ ~Resolves(request)

\* The rows committed for each session since it last entered step name
InsertedAfter(before, after, table_before, table_after) ==
  [s \in DOMAIN after |->
     IF s \notin DOMAIN before THEN 0
     ELSE IF after[s].step = "name" /\ before[s].step # "name" THEN 0
     ELSE inserted[s]
          + Cardinality({i \in (Len(table_before) + 1)..Len(table_after) :
                           table_after[i].session_id = s})]

----------------------------------------------------------------------------
(* Sequential turns: every request is handled to its end before the next *)

\* No extractor has been called on its own
NoCall == [fn |-> "", args |-> << >>]

Init ==
  /\ active_sessions = << >>
  /\ bookings = << >>
  /\ response = NoResponse
  /\ inserted = << >>
  /\ inflight = << >>
  /\ call = NoCall
  /\ result = None

\* The user of the model types, at each step, the texts the step accepts, one it does
\* not understand and one it rejects as empty; at steps guests and payment, where
\* nearly every text stores a different value, the texts that store one value.  Texts
\* that a step answers alike and that leave the same state are typed once.
Typed(step) ==
  CASE step = "name" -> {M_alice, M_maybe, M_empty}
    [] step \in {"checkin", "checkout"} -> {M_date18, M_date20, M_arrive, M_maybe, M_blank}
    [] step = "guests" -> {M_two, M_12people, M_empty}
    [] step = "breakfast" -> {M_yes, M_no, M_maybe, M_blank}
    [] step = "payment" -> {M_skip, M_empty}
    [] step = "confirm" -> {M_yes, M_cancel, M_maybe, M_empty}
    [] OTHER -> {M_yes, M_blank}

\* One request handled by chat_endpoint, with what uuid4 and the external components
\* answer during it
ChatWith(request, new_session_id, o) ==
  \E r \in {chat_endpoint(request, active_sessions, bookings, new_session_id, o)} :
     /\ Len(r.table) <= MaxBookings
     /\ active_sessions' = r.sessions
     /\ bookings' = r.table
     /\ response' = r.response
     /\ inserted' = InsertedAfter(active_sessions, r.sessions, bookings, r.table)
     /\ UNCHANGED <<inflight, call, result>>

NewIds(request) == IF Creates(request) THEN SessionIds \ DOMAIN active_sessions ELSE {""}

Chat(request) ==
  /\ request.has_message => request.message \in Typed(StepFor(request))
  /\ \E new_session_id \in NewIds(request) :
       \E o \in Oracles(StepFor(request), strip_on[request.message]) :
         ChatWith(request, new_session_id, o)

Next == \E request \in Requests : Chat(request)

Spec == Init /\ [][Next]_vars

----------------------------------------------------------------------------
(* Properties of sequential turns *)

StepIndex(step) == CHOOSE i \in 1..Len(Steps) : Steps[i] = step
IsSuccessor(a, b) == StepIndex(b) = StepIndex(a) + 1
\* A turn: the request of a client that sends the text m in the session s
Turn(s, m) == [json |-> TRUE, has_message |-> TRUE, message |-> m, session_id |-> Some(s)]
Sendable == {m \in Messages : strip_on[m] # << >>}
NegativeMessages == {m \in Sendable : lower(strip(m)) \in Range(negative)}
AffirmativeMessages == {m \in Sendable : lower(strip(m)) \in Range(affirmative)}
ReplyOf(resp) == The(resp.body)

\* C1 as stated: on every turn the step of a session stays or advances to its immediate
\* successor; the only backward move is a cancellation at confirm, which sets step to
\* name and data to empty together; no other step change occurs.
C1_StepChange(s, allowed_reset) ==
  LET old == active_sessions[s]
      new == active_sessions'[s]
  IN /\ \/ new.step = old.step
        \/ IsSuccessor(old.step, new.step)
        \/ /\ old.step \in allowed_reset
           /\ new.step = "name"
           /\ new.data = EmptyData
           /\ old.step = "confirm" =>
                \E m \in NegativeMessages : Chat(Turn(s, m))
     /\ (new.data = EmptyData /\ old.data # EmptyData) => new.step = "name"
C1_Original ==
  [][\A s \in DOMAIN active_sessions : C1_StepChange(s, {"confirm"})]_vars

\* C1 amended: the step stays, advances to its immediate successor, or goes back to name
\* with the data emptied in the same turn, which happens on a cancellation at confirm and
\* on any turn at complete.
C1_Amended ==
  [][\A s \in DOMAIN active_sessions : C1_StepChange(s, {"confirm", "complete"})]_vars

\* A session was reset by a turn after its booking was completed
C1_Witness ==
  /\ response.status = 200
  /\ ReplyOf(response).reply = "start_over"
  /\ \E s \in DOMAIN active_sessions :
       /\ response.session_id = Some(s)
       /\ active_sessions[s].step = "name"
       /\ active_sessions[s].data = EmptyData
       /\ \E i \in 1..Len(bookings) : bookings[i].session_id = s

\* The fields of data in the order the steps collect them
PrefixOfFields(keys) ==
  \A i \in 1..Len(Fields) : \A j \in 1..Len(Fields) :
    (i < j /\ Fields[j] \in keys) => Fields[i] \in keys

\* C2: the fields of data are populated in the order of the steps, so whenever a field is
\* present every field of an earlier step is present too, and a field becomes absent again
\* only by a reset that empties data and sets step to name in the same turn.
C2_FieldOrder ==
  /\ [](\A s \in DOMAIN active_sessions : PrefixOfFields(DOMAIN active_sessions[s].data))
  /\ [][\A s \in DOMAIN active_sessions :
          LET old == active_sessions[s]
              new == active_sessions'[s]
          IN /\ (DOMAIN old.data \ DOMAIN new.data # {}) =>
                   new.data = EmptyData /\ new.step = "name" /\ old.step # "name"
             /\ \A k \in DOMAIN new.data \ DOMAIN old.data :
                   k = Fields[StepIndex(old.step)] /\ IsSuccessor(old.step, new.step)]_vars

\* One session is half way through the steps and the other was reset while it held all
\* six fields
C2_Witness ==
  \E s \in DOMAIN active_sessions : \E u \in DOMAIN active_sessions :
    /\ DOMAIN active_sessions[s].data = {"name", "checkin_date", "checkout_date"}
    /\ active_sessions[s].step = "guests"
    /\ response.session_id = Some(u)
    /\ response.status = 200
    /\ ReplyOf(response).reply = "booking_cancelled"
    /\ active_sessions[u].data = EmptyData

\* The dates the date strings of the model stand for
date_of == [s \in DateStrings |-> strptime(s, "-", TRUE)]
StayOrdered(checkin, checkout) ==
  /\ checkin \in DateStrings /\ checkout \in DateStrings
  /\ date_of[checkin] # None /\ date_of[checkout] # None
  /\ DateAfter(The(date_of[checkout]), The(date_of[checkin]))
\* The constraints of a booking record on the values name, checkin, checkout, guests,
\* breakfast and payment method
ValidBooking(name, checkin, checkout, guests, breakfast, payment_method) ==
  /\ name # << >>
  /\ StayOrdered(checkin, checkout)
  /\ guests \in 1..10
  /\ breakfast \in BOOLEAN
  /\ payment_method # << >>

\* C3: every record handed to the booking sink has a non-empty name, a check-out date
\* strictly after its check-in date, a guest count from 1 to 10, a boolean breakfast flag
\* and a non-empty payment method; the data of a session at step confirm, which is what
\* an affirmative turn hands over, satisfies the same.
C3_RecordsValid ==
  /\ \A i \in 1..Len(bookings) :
       LET row == bookings[i]
       IN /\ row.breakfast \in {0, 1}
          /\ ValidBooking(row.name, row.checkin, row.checkout, row.guests,
                          row.breakfast = 1, row.payment_method)
  /\ \A s \in DOMAIN active_sessions :
       active_sessions[s].step = "confirm" =>
         LET data == active_sessions[s].data
         IN /\ DOMAIN data = Range(Fields)
            /\ ValidBooking(data["name"], data["checkin_date"], data["checkout_date"],
                            data["guests"], data["breakfast"], data["payment_method"])

\* A record was handed to the sink by a session that had a check-out date rejected
\* before: the reply of this turn carries the record
C3_Witness ==
  /\ bookings # << >>
  /\ response.status = 200
  /\ ReplyOf(response).complete
  /\ ReplyOf(response).booking = Some([bookings[Len(bookings)] EXCEPT !.breakfast = (@ = 1)])
  /\ bookings[Len(bookings)].checkin = M_date18

\* C4 as stated: in one traversal, from entering step name to reaching step complete, at
\* most one record is inserted for the session, and a traversal ended by a cancellation
\* has inserted none.
C4_Original ==
  /\ [](\A s \in DOMAIN inserted : inserted[s] <= 1)
  /\ [][\A s \in DOMAIN active_sessions :
          (active_sessions[s].step = "confirm" /\ active_sessions'[s].step = "name")
             => inserted[s] = 0]_vars

\* What the turn of a client that sends m in the session s leaves and answers in the
\* current state, when the external components answer o
Outcome(s, m, o) == chat_endpoint(Turn(s, m), active_sessions, bookings, "", o)
SinkAnswers(sink) == [NoOracle EXCEPT !.sink = sink]

Collecting == {"name", "checkin", "checkout", "guests", "breakfast"}
Extracted(step, text, o) ==
  CASE step = "name" -> extract_name_on[text][o.ner]
    [] step \in {"checkin", "checkout"} -> parse_date_on[text][o.dp]
    [] step = "guests" -> parse_guests_on[text]
    [] step = "breakfast" -> is_yes_on[text]
Reprompt(step) ==
  CASE step = "name" -> "reprompt_name"
    [] step = "checkin" -> "reprompt_checkin"
    [] step = "checkout" -> "reprompt_checkout"
    [] step = "guests" -> "reprompt_guests"
    [] step = "breakfast" -> "reprompt_breakfast"

\* C7: at a data-collecting step, a turn whose extractor returns absent leaves the step
\* and the data of the session unchanged and answers with the re-prompt of that step,
\* complete = false and no booking.
C7_ExtractionFailure ==
  [](\A s \in DOMAIN active_sessions : \A m \in Sendable :
        active_sessions[s].step \in Collecting =>
          \A o \in Oracles(active_sessions[s].step, strip_on[m]) :
            Extracted(active_sessions[s].step, strip_on[m], o) = None =>
              \A r \in {process_conversation_step(active_sessions[s], strip_on[m], bookings, o)} :
                /\ ~r.raised
                /\ r.state = active_sessions[s]
                /\ r.table = bookings
                /\ r.value = Reply(Reprompt(active_sessions[s].step), << >>)
                /\ r.value.complete = FALSE
                /\ r.value.booking = None)

\* The guest count was asked again of a session that holds its first three fields
C7_Witness ==
  /\ response.status = 200
  /\ ReplyOf(response).reply = "reprompt_guests"
  /\ \E s \in DOMAIN active_sessions :
       /\ response.session_id = Some(s)
       /\ active_sessions[s].step = "guests"
       /\ DOMAIN active_sessions[s].data = {"name", "checkin_date", "checkout_date"}

\* C8: at step checkout, a text that parses to a date not strictly after the stored
\* check-in date is rejected: the step stays checkout, no check-out date is stored, the
\* check-in date is unchanged and the reply names the stored check-in date.
C8_CheckoutRejected ==
  [](\A s \in DOMAIN active_sessions : \A m \in Sendable :
        active_sessions[s].step = "checkout" =>
          \A o \in Oracles("checkout", strip_on[m]) :
            \A parsed \in parse_date_on[strip_on[m]][o.dp] :
              ~StayOrdered(active_sessions[s].data["checkin_date"], parsed) =>
                \A r \in {process_conversation_step(active_sessions[s], strip_on[m], bookings, o)} :
                  /\ ~r.raised
                  /\ r.state.step = "checkout"
                  /\ "checkout_date" \notin DOMAIN r.state.data
                  /\ r.state.data["checkin_date"] = active_sessions[s].data["checkin_date"]
                  /\ r.state = active_sessions[s]
                  /\ r.value =
                       Reply("checkout_must_be_after", <<active_sessions[s].data["checkin_date"]>>))

\* A check-out on 2024-01-18 was rejected for a stay that starts on 2024-01-20
C8_Witness ==
  /\ response.status = 200
  /\ ReplyOf(response) = Reply("checkout_must_be_after", <<M_date20>>)
  /\ \E s \in DOMAIN active_sessions :
       /\ response.session_id = Some(s)
       /\ active_sessions[s].step = "checkout"
       /\ active_sessions[s].data = [name |-> <<"A", "l", "i", "c", "e">>,
                                     checkin_date |-> M_date20]

\* C9: a reply has complete = true only on the turn that hands the data to the sink, an
\* affirmative text at step confirm; its booking is present exactly when complete is
\* true; on that turn the step becomes complete and the reply carries the identifier of
\* the row the sink inserted.
C9_CompleteOnSubmit ==
  /\ [](\A s \in DOMAIN active_sessions : \A m \in AffirmativeMessages :
          active_sessions[s].step = "confirm" =>
            \A r \in {Outcome(s, m, SinkAnswers("ok"))} :
              /\ r.response.status = 200
              /\ ReplyOf(r.response).complete
              /\ r.sessions[s].step = "complete")
  /\ [][\A b \in response'.body :
          /\ b.complete <=> b.booking # None
          /\ b.complete =>
               \E s \in DOMAIN active_sessions :
                 /\ response'.session_id = Some(s)
                 /\ active_sessions[s].step = "confirm"
                 /\ active_sessions'[s].step = "complete"
                 /\ Len(bookings') = Len(bookings) + 1
                 /\ \A row \in {bookings'[Len(bookings')]} :
                      /\ row.session_id = s
                      /\ b.reply = "booking_confirmed"
                      /\ b.args = <<row.id>>
                      /\ b.booking = Some([row EXCEPT !.breakfast = (@ = 1)])
                 /\ \E m \in AffirmativeMessages : ChatWith(Turn(s, m), "", SinkAnswers("ok"))]_vars

\* The reply of a submitting turn carries the identifier of the second row of the table
C9_Witness ==
  /\ response.status = 200
  /\ ReplyOf(response).complete
  /\ ReplyOf(response).args = <<2>>
  /\ Len(bookings) = 2
  /\ \E s \in DOMAIN active_sessions :
       response.session_id = Some(s) /\ active_sessions[s].step = "complete"

\* The state of a session that get_or_create_session has just created under the
\* identifier s, as process_conversation_step receives it
Fresh(s) == Put(get_or_create_session(None, << >>, s).sessions[s], "session_id", s)

\* C10: at step confirm a text that is cancel, no, restart or start over after trimming
\* and lowercasing empties the data and sets the step to name, hands nothing to the
\* sink, and the next turn of the session is answered as that of a fresh session.
C10_Cancellation ==
  \A s \in DOMAIN active_sessions : \A m \in NegativeMessages :
    active_sessions[s].step = "confirm" =>
      \A o \in Oracles("confirm", strip_on[m]) :
        \A r \in {Outcome(s, m, o)} :
          /\ r.sessions[s].step = "name"
          /\ r.sessions[s].data = EmptyData
          /\ \A u \in DOMAIN active_sessions \ {s} : r.sessions[u] = active_sessions[u]
          /\ r.table = bookings
          /\ r.response.status = 200
          /\ ReplyOf(r.response) = Reply("booking_cancelled", << >>)
          /\ r.sessions[s] = Fresh(s)

\* A session that held all six fields was cancelled and nothing was inserted for it
C10_Witness ==
  /\ response.status = 200
  /\ ReplyOf(response).reply = "booking_cancelled"
  /\ \E s \in DOMAIN active_sessions :
       /\ response.session_id = Some(s)
       /\ active_sessions[s].step = "name"
       /\ active_sessions[s].data = EmptyData
       /\ \A i \in 1..Len(bookings) : bookings[i].session_id # s

----------------------------------------------------------------------------
(* Concurrent turns: the server handles each request in a thread of its own and
   app.py takes no lock, so the handlers of two requests interleave wherever one of
   them waits: between reading the session and writing it, and around the call of
   the sink. The sink is taken to answer here, so that what goes wrong comes from
   the interleaving alone. *)

Threads == {"t1", "t2"}
ConcSessionIds == {"s1"}
Idle == [pc |-> "idle", sid |-> "", message |-> << >>, step |-> "", attached |-> TRUE,
         data |-> EmptyData, record |-> None]

\* The dictionary the local variable data of thread t refers to: the one the session
\* holds, or the one it held before a reset put a new dictionary in its place
Held(t) ==
  IF inflight[t].attached THEN active_sessions[inflight[t].sid].data ELSE inflight[t].data

\* The user of the concurrent turns answers each prompt with one text, and at the
\* summary confirms or cancels
ConcTyped(step) ==
  CASE step = "name" -> {M_alice}
    [] step = "checkin" -> {M_date18}
    [] step = "checkout" -> {M_date20, M_maybe}
    [] step = "guests" -> {M_two}
    [] step = "breakfast" -> {M_yes}
    [] step = "payment" -> {M_skip}
    [] step = "confirm" -> {M_yes, M_cancel}
    [] OTHER -> {M_yes}

InitConc ==
  /\ active_sessions = << >>
  /\ bookings = << >>
  /\ response = NoResponse
  /\ inserted = << >>
  /\ inflight = [t \in Threads |-> Idle]
  /\ call = NoCall
  /\ result = None

\* chat_endpoint up to the call of process_conversation_step and the first two lines
\* of that: the session is looked up or created and the thread reads step and data
ConcBegin(t, request) ==
  /\ inflight[t].pc = "idle"
  /\ request.json /\ request.has_message /\ strip_on[request.message] # << >>
  /\ request.message \in ConcTyped(StepFor(request))
  /\ \E new_session_id \in IF Creates(request)
                           THEN ConcSessionIds \ DOMAIN active_sessions ELSE {""} :
       \E got \in {get_or_create_session(request.session_id, active_sessions,
                                         new_session_id)} :
         /\ active_sessions' =
              [got.sessions EXCEPT ![got.id] = Put(@, "session_id", got.id)]
         /\ inflight' = [inflight EXCEPT ![t] =
                           [pc |-> "run", sid |-> got.id,
                            message |-> strip_on[request.message],
                            step |-> got.sessions[got.id].step,
                            attached |-> TRUE, data |-> EmptyData, record |-> None]]
         /\ inserted' = IF got.id \in DOMAIN inserted THEN inserted
                        ELSE Put(inserted, got.id, 0)
         /\ UNCHANGED <<bookings, response, call, result>>

Submits(t) ==
  /\ inflight[t].step = "confirm"
  /\ InList(confirm_response_on[inflight[t].message], affirmative)

\* The call of save_booking_to_db in the affirmative branch of step 7
ConcSave(t) ==
  /\ inflight[t].pc = "run"
  /\ Submits(t)
  /\ Len(bookings) < MaxBookings
  /\ \E saved \in {save_booking_to_db(inflight[t].sid, Held(t), bookings, "ok")} :
       /\ bookings' = saved.table
       /\ inflight' = [inflight EXCEPT ![t].pc = IF saved.raised THEN "raised" ELSE "saved",
                                       ![t].record = saved.record]
       /\ inserted' = [inserted EXCEPT ![inflight[t].sid] =
                         @ + Len(saved.table) - Len(bookings)]
       /\ UNCHANGED <<active_sessions, response, call, result>>

\* What a thread that began at step local and holds the dictionary held leaves in the
\* session: the step if its branch assigned one, the data it wrote into the
\* dictionary of the session or the new dictionary of a reset
Replaces(r) == ~r.raised /\ r.value.reply \in {"booking_cancelled", "start_over"}
Written(shared, local, attached, r) ==
  [shared EXCEPT !.step = IF r.state.step # local THEN r.state.step ELSE @,
                 !.data = IF Replaces(r) THEN EmptyData
                          ELSE IF attached THEN r.state.data ELSE @]
\* The threads whose local variable data still names the dictionary a reset has just
\* taken out of the session keep that dictionary
Others(t, sid, r) ==
  [u \in Threads |->
     IF u = t THEN Idle
     ELSE IF Replaces(r) /\ inflight[u].pc # "idle" /\ inflight[u].sid = sid
             /\ inflight[u].attached
          THEN [inflight[u] EXCEPT !.attached = FALSE, !.data = active_sessions[sid].data]
          ELSE inflight[u]]
\* What the affirmative branch of step 7 does after save_booking_to_db
AfterSave(t) ==
  IF inflight[t].pc = "raised" \/ inflight[t].record = None
  THEN Raised([step |-> "confirm", data |-> Held(t)], bookings)
  ELSE Returned([step |-> "complete", data |-> Held(t)], bookings,
                [reply |-> "booking_confirmed", args |-> <<The(inflight[t].record).id>>,
                 complete |-> TRUE, booking |-> inflight[t].record])

\* The rest of the handler: the branch of the step the thread read writes the session
\* and the reply is returned
ConcFinish(t) ==
  /\ inflight[t].pc # "idle"
  /\ inflight[t].pc = "run" => ~Submits(t)
  /\ \E o \in Oracles(inflight[t].step, inflight[t].message) :
       \E r \in {IF inflight[t].pc = "run"
                 THEN process_conversation_step(
                        [step |-> inflight[t].step, data |-> Held(t),
                         session_id |-> inflight[t].sid],
                        inflight[t].message, bookings, [o EXCEPT !.sink = "ok"])
                 ELSE AfterSave(t)} :
         /\ active_sessions' =
              [active_sessions EXCEPT ![inflight[t].sid] =
                 Written(@, inflight[t].step, inflight[t].attached, r)]
         /\ inflight' = Others(t, inflight[t].sid, r)
         /\ response' = respond(active_sessions, inflight[t].sid, r).response
         /\ inserted' = [inserted EXCEPT ![inflight[t].sid] =
                           IF r.state.step = "name" /\ active_sessions[inflight[t].sid].step # "name"
                           THEN 0 ELSE @]
         /\ UNCHANGED <<bookings, call, result>>

NextConc ==
  \E t \in Threads :
    \/ \E request \in Requests : ConcBegin(t, request)
    \/ ConcSave(t)
    \/ ConcFinish(t)

SpecConc == InitConc /\ [][NextConc]_vars

\* C6 as stated: the turns of one session take effect as if handled one after another:
\* two concurrent confirm turns never both insert a record, and a turn interleaved with
\* a cancellation never leaves the session at a step past name with empty data.
C6_Original ==
  /\ \A t \in Threads : \A u \in Threads \ {t} :
       ~ /\ inflight[t].pc = "saved" /\ inflight[u].pc = "saved"
         /\ inflight[t].sid = inflight[u].sid
  /\ \A s \in DOMAIN active_sessions :
       active_sessions[s].step # "name" => active_sessions[s].data # EmptyData

----------------------------------------------------------------------------
(* Further properties of sequential turns *)

UnrecognizedMessages == Sendable \ (AffirmativeMessages \cup NegativeMessages)

\* C11: at step confirm a text that is neither affirmative nor negative leaves the step
\* at confirm and every field as it was, hands nothing to the sink and is answered with
\* the re-prompt, complete = false.
C11_UnrecognizedConfirm ==
  [](\A s \in DOMAIN active_sessions : \A m \in UnrecognizedMessages :
        active_sessions[s].step = "confirm" =>
          \A o \in Oracles("confirm", strip_on[m]) :
            \A r \in {Outcome(s, m, o)} :
              /\ r.sessions = active_sessions
              /\ r.sessions[s].step = "confirm"
              /\ DOMAIN r.sessions[s].data = Range(Fields)
              /\ r.table = bookings
              /\ r.response.status = 200
              /\ ReplyOf(r.response) = Reply("reprompt_confirm", << >>)
              /\ ReplyOf(r.response).complete = FALSE)

\* The summary was asked again of a session that holds all six fields
C11_Witness ==
  /\ response.status = 200
  /\ ReplyOf(response).reply = "reprompt_confirm"
  /\ \E s \in DOMAIN active_sessions :
       /\ response.session_id = Some(s)
       /\ active_sessions[s].step = "confirm"
       /\ DOMAIN active_sessions[s].data = Range(Fields)

\* What the NER pipeline, dateparser and sqlite can answer on a text, whatever the step
AnyOracle(text) ==
  {[ner |-> n, dp |-> d, sink |-> k] :
     n \in ner_outcomes_on[text], d \in dateparser_outcomes_on[text], k \in SinkOutcomes}

\* C12: every turn of a session at step complete sets the step to name and the data to
\* empty, inserts no record and is answered with complete = false; the text of the turn
\* is not read as a name, whatever the extractor would find in it.
C12_CompleteIsTerminal ==
  [](\A s \in DOMAIN active_sessions : \A m \in Sendable :
        active_sessions[s].step = "complete" =>
          \A o \in AnyOracle(strip_on[m]) :
            \A r \in {Outcome(s, m, o)} :
              /\ r.sessions[s].step = "name"
              /\ r.sessions[s].data = EmptyData
              /\ r.sessions[s] = Fresh(s)
              /\ \A u \in DOMAIN active_sessions \ {s} : r.sessions[u] = active_sessions[u]
              /\ r.table = bookings
              /\ r.response.status = 200
              /\ ReplyOf(r.response) = Reply("start_over", << >>)
              /\ ReplyOf(r.response).complete = FALSE)

\* A session whose booking is the only row of the table was reset by its next turn
C12_Witness ==
  /\ response.status = 200
  /\ ReplyOf(response) = Reply("start_over", << >>)
  /\ Len(bookings) = 1
  /\ \E s \in DOMAIN active_sessions :
       /\ response.session_id = Some(s)
       /\ bookings[1].session_id = s
       /\ active_sessions[s] = Fresh(s)
       /\ inserted[s] = 0

\* C13 as stated: once the booking is confirmed and the step is complete, the session
\* holds none of the values of the record, which only the sink keeps.
C13_Original ==
  \A s \in DOMAIN active_sessions :
    active_sessions[s].step = "complete" =>
      DOMAIN active_sessions[s].data \cap Range(Fields) = {}

\* The identifiers uuid4 can return next: it repeats neither a key of the registry nor
\* an identifier a client made up
Unused == SessionIds \ DOMAIN active_sessions

\* C14: get_or_create_session returns the session of an identifier that is a key of the
\* registry, with the registry as it was; for an absent, empty or unknown identifier it
\* stores a session with step name and empty data under a fresh identifier, which is no
\* key of the registry before and not the identifier supplied, and returns that; the
\* session identifier a turn returns is a key of the registry.
C14_GetOrCreate ==
  /\ \A id \in ClientIds :
       IF id # None /\ The(id) \in DOMAIN active_sessions
       THEN \A new_session_id \in SessionIds :
              \A got \in {get_or_create_session(id, active_sessions, new_session_id)} :
                /\ got.id = The(id)
                /\ got.sessions = active_sessions
       ELSE \A new_session_id \in Unused :
              \A got \in {get_or_create_session(id, active_sessions, new_session_id)} :
                /\ got.id = new_session_id
                /\ got.id \notin DOMAIN active_sessions
                /\ Some(got.id) # id
                /\ DOMAIN got.sessions = DOMAIN active_sessions \cup {got.id}
                /\ got.sessions[got.id] = [step |-> "name", data |-> EmptyData]
                /\ \A u \in DOMAIN active_sessions : got.sessions[u] = active_sessions[u]
  /\ \A id \in response.session_id : id \in DOMAIN active_sessions

\* A second session was created, and its first turn answered, while the first session
\* is half way through the steps
C14_Witness ==
  \E s \in DOMAIN active_sessions : \E u \in DOMAIN active_sessions \ {s} :
    /\ active_sessions[s].step = "breakfast"
    /\ response.session_id = Some(u)
    /\ response.status = 200
    /\ ReplyOf(response).reply = "reprompt_name"
    /\ active_sessions[u] = Fresh(u)

\* The requests chat_endpoint finds no text in: the message is missing, empty or
\* white space
Malformed == {request \in Requests :
                request.json /\ (~request.has_message \/ strip_on[request.message] = << >>)}

\* C15: a request whose message is missing, empty or white space is answered with an
\* error before the session is looked up: no session is created and no session
\* changes, also when the request carries the identifier of a session.
C15_EmptyMessageRejected ==
  \A request \in Malformed : \A new_session_id \in Unused \cup {""} :
    \A r \in {chat_endpoint(request, active_sessions, bookings, new_session_id, NoOracle)} :
      /\ r.sessions = active_sessions
      /\ r.table = bookings
      /\ r.response.status = 400
      /\ r.response.error = IF request.has_message THEN "Message cannot be empty"
                            ELSE "Missing required field: message"
      /\ r.response.body = None
      /\ r.response.session_id = None

\* An empty message was rejected while a session waits for its confirmation
C15_Witness ==
  /\ response = BadRequest("Message cannot be empty")
  /\ \E s \in DOMAIN active_sessions :
       active_sessions[s].step = "confirm" /\ DOMAIN active_sessions[s].data = Range(Fields)

\* A turn the step of the session accepts: its extractor finds a value, at step
\* checkout one later than the check-in; any text is a payment; at step confirm the
\* text is affirmative and the sink accepts the record
Accepted(session_state, m, o) ==
  CASE session_state.step \in Collecting \ {"checkout"} ->
         Extracted(session_state.step, strip_on[m], o) # None
    [] session_state.step = "checkout" ->
         \E parsed \in parse_date_on[strip_on[m]][o.dp] :
           StayOrdered(session_state.data["checkin_date"], parsed)
    [] session_state.step = "payment" -> TRUE
    [] session_state.step = "confirm" -> m \in AffirmativeMessages /\ o.sink = "ok"
    [] OTHER -> FALSE

\* The texts of a traversal, and what it leaves after its first k turns when every
\* turn is accepted: the session, the table, the steps visited and the replies
Traversal == <<M_alice, M_date18, M_date20, M_two, M_yes, M_skip, M_confirm>>
RECURSIVE AfterTurns(_)
AfterTurns(k) ==
  IF k = 0
  THEN {[state |-> Fresh("s1"), table |-> << >>, steps |-> <<"name">>, replies |-> << >>]}
  ELSE UNION {
         {[state |-> r.state, table |-> r.table,
           steps |-> Append(x.steps, r.state.step),
           replies |-> Append(x.replies, r.value)] :
            r \in {process_conversation_step(x.state, strip_on[Traversal[k]], x.table, o) :
                     o \in {a \in AnyOracle(strip_on[Traversal[k]]) :
                              Accepted(x.state, Traversal[k], a)}}} :
         x \in AfterTurns(k - 1)}
TraversalEnds == AfterTurns(Len(Traversal))

\* C16: from a fresh session, six turns each accepted by the step they arrive at and an
\* affirmative seventh, the sink accepting, visit name, checkin, checkout, guests,
\* breakfast, payment, confirm, complete in this order, one step a turn; the first six
\* replies have complete = false, the seventh complete = true and a booking with an
\* identifier and a check-out after its check-in.
C16_FullTraversal ==
  [](/\ TraversalEnds # {}
      /\ \A x \in TraversalEnds :
           /\ x.steps = Steps
           /\ \A k \in 1..6 : x.replies[k].complete = FALSE /\ x.replies[k].booking = None
           /\ x.replies[7].complete = TRUE
           /\ \A b \in x.replies[7].booking :
                b.id = 1 /\ StayOrdered(b.checkin, b.checkout)
           /\ x.replies[7].booking # None
      /\ \A s \in DOMAIN active_sessions : \A m \in Sendable :
           \A o \in Oracles(active_sessions[s].step, strip_on[m]) :
             Accepted(active_sessions[s], m, o) =>
               \A r \in {process_conversation_step(active_sessions[s], strip_on[m], bookings, o)} :
                 /\ ~r.raised
                 /\ IsSuccessor(active_sessions[s].step, r.state.step)
                 /\ r.value.complete = (active_sessions[s].step = "confirm")
                 /\ r.value.complete =>
                      \E b \in r.value.booking :
                        b.id = Len(bookings) + 1 /\ StayOrdered(b.checkin, b.checkout))

\* Seven turns after the first request the only session is at step complete and holds
\* the only booking
C16_Witness ==
  /\ DOMAIN active_sessions = {"s1"}
  /\ active_sessions["s1"].step = "complete"
  /\ inserted["s1"] = 1
  /\ Len(bookings) = 1
  /\ response.status = 200
  /\ ReplyOf(response).complete
  /\ \E b \in ReplyOf(response).booking :
       b.id = 1 /\ b.checkin = M_date18 /\ b.checkout = M_date20

----------------------------------------------------------------------------
(* One client, whose dates include the last day datetime can hold *)

TypedOne(step) ==
  CASE step = "name" -> {M_alice, M_maybe}
    [] step = "checkin" -> {M_date18, M_lastday, M_maybe}
    [] step = "checkout" -> {M_date18, M_date20, M_lastday, M_maybe}
    [] step = "guests" -> {M_two, M_maybe}
    [] step = "breakfast" -> {M_yes, M_no}
    [] step = "payment" -> {M_skip, M_crdit, M_bitcoin}
    [] step = "confirm" -> {M_yes, M_cancel, M_maybe}
    [] OTHER -> {M_yes}

RequestsOne ==
  {[json |-> TRUE, has_message |-> TRUE, message |-> m, session_id |-> id] :
     m \in Messages \cup OtherTexts,
     id \in {None} \cup {Some(s) : s \in DOMAIN active_sessions}}

ChatOne(request) ==
  /\ request.message \in TypedOne(StepFor(request))
  /\ \E new_session_id \in IF Creates(request) THEN {"s1"} \ DOMAIN active_sessions
                           ELSE {""} :
       \E o \in Oracles(StepFor(request), strip_on[request.message]) :
         ChatWith(request, new_session_id, o)

NextOne == \E request \in RequestsOne : ChatOne(request)

SpecOne == Init /\ [][NextOne]_vars

\* The next step of a traversal, which starts again after complete
Forward(a, b) == IsSuccessor(a, b) \/ (a = "complete" /\ b = "name")
\* Some text takes the session to its next step when the sink accepts; at step confirm
\* this inserts the record
CanAdvance(session_state, table) ==
  \E m \in {x \in Messages \cup OtherTexts : strip_on[x] # << >>} :
    \E o \in {a \in AnyOracle(strip_on[m]) : a.sink = "ok"} :
      \E r \in {process_conversation_step(session_state, strip_on[m], table, o)} :
        /\ ~r.raised
        /\ Forward(session_state.step, r.state.step)
        /\ session_state.step = "confirm" => Len(r.table) = Len(table) + 1

\* C17 as stated: no reachable state of a session is stuck: whatever failed before, some
\* further turn takes the session one step on, and so, turn by turn, to step complete
\* with its record inserted, when the sink accepts.
C17_Original ==
  \A s \in DOMAIN active_sessions : CanAdvance(active_sessions[s], bookings)

----------------------------------------------------------------------------
(* The extractors of nlp_utils.py called on their own.  A behaviour of SpecPure starts
   with one call drawn from PureCalls and applies the function called to its arguments;
   result is None until the call has returned, and Some(value) afterwards. *)

\* Arguments of validate_date_order
D_dec31 == <<"2","0","2","3","-","1","2","-","3","1">>
\* Each argument with the calendar date it writes in the form YYYY-MM-DD, None when it
\* writes none
DateCases ==
  { [text |-> M_date18, date |-> Some(<<2024, 1, 18>>)],
    [text |-> M_date20, date |-> Some(<<2024, 1, 20>>)],
    [text |-> <<"2","0","2","4","-","1","-","2","0">>, date |-> Some(<<2024, 1, 20>>)],
    [text |-> <<"2","0","2","4","-","0","1","-"," ","5">>, date |-> Some(<<2024, 1, 5>>)],
    [text |-> <<"2","0","2","4","-","0","2","-","2","9">>, date |-> Some(<<2024, 2, 29>>)],
    [text |-> D_dec31, date |-> Some(<<2023, 12, 31>>)],
    [text |-> M_lastday, date |-> Some(<<9999, 12, 31>>)],
    [text |-> <<"2","0","2","3","-","0","2","-","2","9">>, date |-> None],
    [text |-> <<"2","0","2","4","-","1","3","-","0","1">>, date |-> None],
    [text |-> <<"0","0","0","0","-","0","1","-","0","1">>, date |-> None],
    [text |-> <<"2","0","/","0","1","/","2","0","2","4">>, date |-> None],
    [text |-> M_empty, date |-> None] }

\* Arguments of parse_guests
G_12or3 == <<"1","2"," ","o","r"," ","3">>
\* Each argument with what it holds: solo tells whether a solo phrase occurs in it, runs
\* are the values of its digit sequences, exact the values of its words that are number
\* words, near the values of its words that are within similarity 80 of a number word,
\* each in the order of the text
GuestCases ==
  { [text |-> M_justme, solo |-> TRUE, runs |-> << >>, exact |-> << >>, near |-> << >>],
    [text |-> M_dozen, solo |-> FALSE, runs |-> << >>, exact |-> <<1>>, near |-> <<1>>],
    [text |-> M_12people, solo |-> FALSE, runs |-> <<12>>, exact |-> << >>, near |-> << >>],
    [text |-> M_two, solo |-> FALSE, runs |-> <<2>>, exact |-> << >>, near |-> << >>],
    [text |-> M_maybe, solo |-> FALSE, runs |-> << >>, exact |-> << >>, near |-> << >>],
    [text |-> G_12or3, solo |-> FALSE, runs |-> <<12, 3>>, exact |-> << >>, near |-> << >>],
    [text |-> <<"t","w","o"," ","5">>, solo |-> FALSE, runs |-> <<5>>, exact |-> <<2>>, near |-> <<2>>],
    [text |-> <<"m","e"," ","5">>, solo |-> TRUE, runs |-> <<5>>, exact |-> << >>, near |-> << >>],
    [text |-> <<"t","r","e","e">>, solo |-> FALSE, runs |-> << >>, exact |-> << >>, near |-> <<3>>],
    [text |-> <<"f","i","v"," ","t","w","o">>, solo |-> FALSE, runs |-> << >>, exact |-> <<2>>, near |-> <<5, 2>>],
    [text |-> <<"0">>, solo |-> FALSE, runs |-> <<0>>, exact |-> << >>, near |-> << >>],
    [text |-> <<"1","1">>, solo |-> FALSE, runs |-> <<11>>, exact |-> << >>, near |-> << >>],
    [text |-> <<"c","o","u","p","l","e">>, solo |-> FALSE, runs |-> << >>, exact |-> <<2>>, near |-> <<2>>],
    [text |-> <<"s","o","m","e"," ","3">>, solo |-> TRUE, runs |-> <<3>>, exact |-> << >>, near |-> << >>],
    [text |-> <<"0","0","7">>, solo |-> FALSE, runs |-> <<7>>, exact |-> << >>, near |-> << >>],
    [text |-> <<"T","W","O","!">>, solo |-> FALSE, runs |-> << >>, exact |-> <<2>>, near |-> <<2>>],
    [text |-> M_empty, solo |-> FALSE, runs |-> << >>, exact |-> << >>, near |-> << >>],
    [text |-> M_blank, solo |-> FALSE, runs |-> << >>, exact |-> << >>, near |-> << >>] }

\* Arguments of is_yes
Y_incorrect == <<"i","n","c","o","r","r","e","c","t">>
\* Each argument with what it holds: exact tells the list that has the trimmed,
\* lower-cased text as one of its words ("yes", "no", or "" for neither), whole_yes and
\* whole_no whether the whole text is within similarity 80 of a word of the list,
\* yes_count and no_count the number of its tokens within similarity 70 of a word of
\* the list
YesCases ==
  { [text |-> M_yes, exact |-> "yes", whole_yes |-> TRUE, whole_no |-> FALSE,
     yes_count |-> 1, no_count |-> 0],
    [text |-> M_no, exact |-> "no", whole_yes |-> FALSE, whole_no |-> TRUE,
     yes_count |-> 0, no_count |-> 1],
    [text |-> Y_incorrect, exact |-> "no", whole_yes |-> TRUE, whole_no |-> TRUE,
     yes_count |-> 1, no_count |-> 1],
    [text |-> <<"c","o","r","r","e","c","t">>, exact |-> "yes", whole_yes |-> TRUE, whole_no |-> TRUE,
     yes_count |-> 1, no_count |-> 1],
    [text |-> <<"o","f"," ","c","o","u","r","s","e">>, exact |-> "yes", whole_yes |-> TRUE, whole_no |-> FALSE,
     yes_count |-> 1, no_count |-> 0],
    [text |-> <<" ","Y","E","S"," ">>, exact |-> "yes", whole_yes |-> TRUE, whole_no |-> FALSE,
     yes_count |-> 1, no_count |-> 0],
    [text |-> M_maybe, exact |-> "", whole_yes |-> FALSE, whole_no |-> FALSE,
     yes_count |-> 0, no_count |-> 0],
    [text |-> <<"y","e","s"," ","n","o">>, exact |-> "", whole_yes |-> FALSE, whole_no |-> FALSE,
     yes_count |-> 1, no_count |-> 1],
    [text |-> <<"y","e","s"," ","p","l","e","a","s","e">>, exact |-> "", whole_yes |-> FALSE, whole_no |-> FALSE,
     yes_count |-> 2, no_count |-> 0],
    [text |-> <<"o","k","a","y"," ","n","o"," ","n","o">>, exact |-> "", whole_yes |-> FALSE, whole_no |-> FALSE,
     yes_count |-> 1, no_count |-> 2],
    [text |-> <<"n","o"," ","t","h","a","n","k","s"," ","p","l","e","a","s","e"," ","o","k">>, exact |-> "", whole_yes |-> FALSE, whole_no |-> FALSE,
     yes_count |-> 2, no_count |-> 1],
    [text |-> <<"y","e","s","s">>, exact |-> "", whole_yes |-> TRUE, whole_no |-> FALSE,
     yes_count |-> 1, no_count |-> 0],
    [text |-> <<"n","o","o">>, exact |-> "", whole_yes |-> FALSE, whole_no |-> TRUE,
     yes_count |-> 0, no_count |-> 1],
    [text |-> M_empty, exact |-> "", whole_yes |-> FALSE, whole_no |-> FALSE,
     yes_count |-> 0, no_count |-> 0],
    [text |-> M_blank, exact |-> "", whole_yes |-> FALSE, whole_no |-> FALSE,
     yes_count |-> 0, no_count |-> 0] }

PureCalls ==
  {[fn |-> "validate_date_order", args |-> <<a.text, b.text>>] : a, b \in DateCases}
    \cup {[fn |-> "parse_guests", args |-> <<c.text>>] : c \in GuestCases}
    \cup {[fn |-> "is_yes", args |-> <<c.text>>] : c \in YesCases}

InitPure ==
  /\ active_sessions = << >>
  /\ bookings = << >>
  /\ response = NoResponse
  /\ inserted = << >>
  /\ inflight = << >>
  /\ call \in PureCalls
  /\ result = None

CallValidateDateOrder ==
  /\ call.fn = "validate_date_order"
  /\ result = None
  /\ result' = Some(validate_date_order(call.args[1], call.args[2]))
  /\ UNCHANGED <<active_sessions, bookings, response, inserted, inflight, call>>

CallParseGuests ==
  /\ call.fn = "parse_guests"
  /\ result = None
  /\ result' = Some(parse_guests(call.args[1]))
  /\ UNCHANGED <<active_sessions, bookings, response, inserted, inflight, call>>

CallIsYes ==
  /\ call.fn = "is_yes"
  /\ result = None
  /\ result' = Some(is_yes(call.args[1]))
  /\ UNCHANGED <<active_sessions, bookings, response, inserted, inflight, call>>

NextPure == CallValidateDateOrder \/ CallParseGuests \/ CallIsYes
SpecPure == InitPure /\ [][NextPure]_vars

\* The number of days from 0001-01-01 to a calendar date, that day included
DaysBeforeMonth == <<0, 31, 59, 90, 120, 151, 181, 212, 243, 273, 304, 334>>
Ordinal(date) ==
  LET y == date[1] - 1
  IN 365 * y + (y \div 4) - (y \div 100) + (y \div 400)
       + DaysBeforeMonth[date[2]] + (IF date[2] > 2 /\ IsLeap(date[1]) THEN 1 ELSE 0)
       + date[3]

\* C18: validate_date_order(d1, d2) returns true exactly when both arguments write a
\* calendar date in the form YYYY-MM-DD and the date of d2 is strictly later than the
\* date of d1; equal dates, reversed dates and an argument that writes no date give
\* false, and every call returns a boolean.
C18_ValidateDateOrder ==
  (call.fn = "validate_date_order" /\ result # None) =>
    /\ result \in {Some(TRUE), Some(FALSE)}
    /\ \A a, b \in DateCases :
         call.args = <<a.text, b.text>> =>
           result = Some(/\ a.date # None
                         /\ b.date # None
                         /\ Ordinal(The(b.date)) > Ordinal(The(a.date)))
\* a check-out on 2024-01-18 for a check-in on 2023-12-31 has been found in order
C18_Witness ==
  /\ call = [fn |-> "validate_date_order", args |-> <<D_dec31, M_date18>>]
  /\ result = Some(TRUE)

\* C19: parse_guests("just me") is 1 and parse_guests("a dozen") is absent.
C19_Original ==
  (call.fn = "parse_guests" /\ result # None) =>
    /\ call.args = <<M_justme>> => result = Some(Some(1))
    /\ call.args = <<M_dozen>> => result = Some(None)

\* The digit sequences of a text whose value lies in 1..10
InRange(runs) == SelectSeq(runs, LAMBDA n : n \in 1..10)
\* What the four stages give in their order for a text that holds what c tells
Staged(c) ==
  IF c.solo THEN Some(1)
  ELSE IF InRange(c.runs) # << >> THEN Some(Head(InRange(c.runs)))
  ELSE IF c.exact # << >> THEN Some(Head(c.exact))
  ELSE IF c.near # << >> THEN Some(Head(c.near))
  ELSE None

\* C20: parse_guests returns absent or an integer in 1..10, and applies its stages in
\* the order solo phrase, digit sequence, exact number word, approximate number word:
\* a text with a solo phrase gives 1; otherwise the first digit sequence whose value is
\* in 1..10 is returned, the sequences outside 1..10 being skipped; a number word is
\* consulted only when no digit sequence is in range, the exact ones before the
\* approximate ones; a text with none of these gives absent.
C20_ParseGuests ==
  (call.fn = "parse_guests" /\ result # None) =>
    \A guests \in {The(result)} :
      /\ guests = None \/ \E n \in 1..10 : guests = Some(n)
      /\ \A c \in GuestCases : call.args = <<c.text>> => guests = Staged(c)
\* "12 or 3" has given 3: 12 was skipped and the scan went on
C20_Witness ==
  /\ call = [fn |-> "parse_guests", args |-> <<G_12or3>>]
  /\ result = Some(Some(3))

\* What the counts of the per-token stage give
Counted(c) ==
  IF c.yes_count > c.no_count THEN Some(TRUE)
  ELSE IF c.no_count > c.yes_count THEN Some(FALSE)
  ELSE None

\* C21: is_yes returns true for a text that, trimmed and lower-cased, is exactly a word
\* of the affirmative list, and false for one that is exactly a word of the negative
\* list, whatever the text matches approximately in the other list; a text that
\* reaches the per-token stage gives true when more of its tokens match the
\* affirmative list than the negative one, false when fewer do, and absent on a tie,
\* the tie of no matching token included.
C21_IsYes ==
  (call.fn = "is_yes" /\ result # None) =>
    \A c \in YesCases :
      call.args = <<c.text>> =>
        /\ c.exact = "yes" => result = Some(Some(TRUE))
        /\ c.exact = "no" => result = Some(Some(FALSE))
        /\ (c.exact = "" /\ ~c.whole_yes /\ ~c.whole_no) => result = Some(Counted(c))
\* "incorrect", a word of the negative list within similarity 80 of "correct", has
\* given false
C21_Witness ==
  /\ call = [fn |-> "is_yes", args |-> <<Y_incorrect>>]
  /\ result = Some(Some(FALSE))

----------------------------------------------------------------------------
(* Step payment *)

\* Texts typed at step payment, each with the payment method it stands for: the skip
\* sentinel, the title-cased method that is nearest to it when that one scores above 60,
\* and otherwise the text itself, lower-cased and then title-cased
PaymentCases ==
  { [text |-> M_skip, stored |-> NotSpecified],
    [text |-> M_later, stored |-> NotSpecified],
    [text |-> M_crdit, stored |-> <<"C","r","e","d","i","t"," ","C","a","r","d">>],
    [text |-> M_itcard, stored |-> <<"D","e","b","i","t"," ","C","a","r","d">>],
    [text |-> M_bitcoin, stored |-> <<"B","i","t","c","o","i","n">>],
    [text |-> M_alice, stored |-> <<"I","'","M"," ","A","l","i","c","e">>],
    [text |-> M_cancel, stored |-> <<"C","a","n","c","e","l">>],
    [text |-> M_12people, stored |-> <<"1","2"," ","P","e","o","p","l","e">>],
    [text |-> M_date18, stored |-> <<"2","0","2","4","-","0","1","-","1","8">>] }

\* C22: step payment accepts every non-empty text and always goes on to step confirm.
\* It stores "Not specified" for skip, later and none, otherwise the title-cased method
\* with the highest score when that score is above 60, otherwise the title-cased echo of
\* the lower-cased text; it never asks again and never stores an absent or empty value.
C22_PaymentAccepted ==
  \A s \in DOMAIN active_sessions :
    active_sessions[s].step = "payment" =>
      \A m \in {x \in Messages \cup OtherTexts : strip_on[x] # << >>} :
        \A r \in {process_conversation_step(active_sessions[s], strip_on[m], bookings, NoOracle)} :
          /\ ~r.raised
          /\ r.state.step = "confirm"
          /\ r.value.reply = "summary"
          /\ r.table = bookings
          /\ DOMAIN r.state.data = DOMAIN active_sessions[s].data \cup {"payment_method"}
          /\ \A k \in DOMAIN active_sessions[s].data : r.state.data[k] = active_sessions[s].data[k]
          /\ r.state.data["payment_method"] # << >>
          /\ r.value.args[6] = r.state.data["payment_method"]
          /\ \A c \in PaymentCases :
               c.text = m => r.state.data["payment_method"] = c.stored
\* "crdit card" was typed at step payment: the session is at step confirm and holds
\* "Credit Card"
C22_Witness ==
  /\ response.status = 200
  /\ ReplyOf(response).reply = "summary"
  /\ \E s \in DOMAIN active_sessions :
       /\ response.session_id = Some(s)
       /\ active_sessions[s].step = "confirm"
       /\ active_sessions[s].data["payment_method"] = <<"C","r","e","d","i","t"," ","C","a","r","d">>

----------------------------------------------------------------------------
(* Sessions side by side *)

\* C23: sessions share no mutable state.  A turn handled for one session, its creation,
\* cancellation, completion and reset included, leaves the step and the data of every
\* other session of the registry as they were, and no turn removes a session from the
\* registry.
C23_SessionsIsolated ==
  [][/\ DOMAIN active_sessions \subseteq DOMAIN active_sessions'
     /\ \A s \in DOMAIN active_sessions :
          active_sessions'[s] # active_sessions[s] => response'.session_id = Some(s)]_vars
\* One session has just cancelled at step confirm and is back at step name with no
\* data, while the other session still holds its name and waits at step checkin
C23_Witness ==
  /\ DOMAIN active_sessions = {"s1", "s2"}
  /\ response.status = 200
  /\ ReplyOf(response).reply = "booking_cancelled"
  /\ \E s, t \in DOMAIN active_sessions :
       /\ s # t
       /\ response.session_id = Some(s)
       /\ active_sessions[s].step = "name"
       /\ active_sessions[s].data = EmptyData
       /\ active_sessions[t].step = "checkin"
       /\ DOMAIN active_sessions[t].data = {"name"}

----------------------------------------------------------------------------
(* The fields a step finds *)

\* The fields collected by the steps before a step
FieldsAt(step) == {Fields[i] : i \in 1..(StepIndex(step) - 1)}
\* A turn that reads the fields by key: a check-out date at step checkout, a payment at
\* step payment, a confirmation at step confirm
KeyedReads ==
  [checkout |-> M_date20, payment |-> M_skip, confirm |-> M_confirm]

\* C24: under sequential turns the step tells exactly which fields data holds: none at
\* name, name at checkin, name and checkin_date at checkout, checkout_date too at
\* guests, guests too at breakfast, breakfast too at payment, all six at confirm.  So
\* the keyed reads of data at step checkout, in the summary and in save_booking_to_db
\* never miss a field.
C24_FieldsByStep ==
  [](\A s \in DOMAIN active_sessions :
       \A step \in {active_sessions[s].step} :
         step # "complete" =>
           /\ DOMAIN active_sessions[s].data = FieldsAt(step)
           /\ step \in DOMAIN KeyedReads =>
                \A o \in {a \in Oracles(step, strip_on[KeyedReads[step]]) : a.sink = "ok"} :
                  ~process_conversation_step(active_sessions[s], strip_on[KeyedReads[step]],
                                             bookings, o).raised)
\* After a booking and the reset that follows it, a session is at step name with no
\* data while another one is at step confirm with all six fields
C24_Witness ==
  \E s, t \in DOMAIN active_sessions :
    /\ active_sessions[s].step = "name"
    /\ active_sessions[s].data = EmptyData
    /\ \E i \in 1..Len(bookings) : bookings[i].session_id = s
    /\ active_sessions[t].step = "confirm"
    /\ DOMAIN active_sessions[t].data = Range(Fields)

----------------------------------------------------------------------------
(* Turns that end in an error *)

\* C25: a confirm turn that ends in an error has persisted no record: when
\* save_booking_to_db or the construction of the reply fails, the table holds no row
\* for that attempt, so no row of the table stems from a turn that was answered with
\* an error and a second confirmation cannot leave two records for one traversal.
C25_Original ==
  [][response'.status = 500 =>
       /\ bookings' = bookings
       /\ \A s \in DOMAIN inserted' : s \in DOMAIN inserted => inserted'[s] = inserted[s]]_vars

----------------------------------------------------------------------------
(* The session a record belongs to *)

\* C26: every record persisted by a confirm turn of chat_endpoint carries as session_id
\* the registry key of the session that confirmed it, which is the session_id of the
\* reply of that turn and never the empty string; so does a second booking the same
\* session makes after a reset or a cancellation.
C26_RecordSession ==
  /\ [](\A i \in 1..Len(bookings) :
          bookings[i].session_id # "" /\ bookings[i].session_id \in DOMAIN active_sessions)
  /\ [][\A i \in (Len(bookings) + 1)..Len(bookings') :
          \E s \in DOMAIN active_sessions :
            /\ bookings'[i].session_id = s
            /\ active_sessions[s].step = "confirm"
            /\ response'.session_id = Some(s)
            /\ \A b \in response'.body : \A rec \in b.booking : rec.session_id = s]_vars
\* A session that booked, was reset and went through the steps again has its second
\* record confirmed: both rows carry its identifier
C26_Witness ==
  /\ Len(bookings) = 2
  /\ response.status = 200
  /\ ReplyOf(response).complete
  /\ \E s \in DOMAIN active_sessions :
       /\ response.session_id = Some(s)
       /\ bookings[1].session_id = s
       /\ bookings[2].session_id = s
       /\ inserted[s] = 1
       /\ \E rec \in ReplyOf(response).booking : rec.session_id = s /\ rec.id = 2

====
